---------------------------- MODULE Spec2Model ----------------------------
(***************************************************************************)
(* Episode coordinator (GlobalEnv.step / GlobalEnv.reset) of the           *)
(* rl-aviation-sim-env repository, together with the parts of its          *)
(* collaborators that step and reset drive: the injected flight client     *)
(* (sendCTRL, getObs, isCrash, parkingBrakeRelease, and                    *)
(* XPlaneInterface.resetPOSI with its acknowledgement poll loop) and the   *)
(* collision detector's sticky flag.                                       *)
(*                                                                         *)
(* Units: rewards are kept in tenths (10.0 is 100) so that the reward      *)
(* arithmetic of step stays exact over the integers; time is kept in       *)
(* tenths of a second.  Observation samples are small integers, which      *)
(* np.float32 represents exactly, so np.array(.., dtype=np.float32)        *)
(* preserves them.                                                         *)
(***************************************************************************)
EXTENDS Integers, Sequences, FiniteSets, TLC

VARIABLES
    episode_steps,           \* GlobalEnv.episode_steps
    parking_brake_released,  \* GlobalEnv.parking_brake_released
    timeout_incidents,       \* GlobalEnv.timeout_incidents
    episodes_completed,      \* GlobalEnv.episodes_completed
    flag,                    \* ControlParameters.flag
    isCollision,             \* ControlParameters.isCollision
    episodeReward,           \* ControlParameters.episodeReward (tenths)
    totalReward,             \* ControlParameters.totalReward (tenths)
    state7,                  \* ControlParameters.state7: [kind, val]
    aircraft_colliding,      \* AircraftCollisionDetector._aircraft_colliding
    last,                    \* the last call of step/reset: what it did and what it returned
    last_obs,                \* the last call of getObs on an interface: its inputs and result
    udp,                     \* XPlaneConnect.socket and the datagrams on their way to it
    last_xpc,                \* the last call on XPlaneConnect: its inputs and what it did
    det,                     \* AircraftCollisionDetector: its fields, its lock and the calls in progress
    iface                    \* the flight interface the caller holds and the last call on it

vars == <<episode_steps, parking_brake_released, timeout_incidents,
          episodes_completed, flag, isCollision, episodeReward, totalReward,
          state7, aircraft_colliding, last, last_obs, udp, last_xpc, det, iface>>

\* the coordinator's variables: all but the detector's flag, which alone
\* ContactCallback changes, and the record of getObs calls
ProgVars ==
    <<episode_steps, parking_brake_released, timeout_incidents,
      episodes_completed, flag, isCollision, episodeReward, totalReward,
      state7, last>>

\* the variables of the models that stand beside the coordinator's
SideVars == <<det, iface>>

-----------------------------------------------------------------------------
(* Bounds of the model *)

\* max_episode_steps handed to GlobalEnv(client, max_episode_steps)
MaxEpisodeSteps == 2

\* step is not called any more once episode_steps has reached this cap
StepCap == 3

\* cap on episodes_completed
MaxEpisodes == 2

(* Program constants *)

\* max_retries of step
max_retries == 3

\* expected_length of step
expected_length == 7

\* timeout of the reset handshake, tenths of a second (10.0 s)
timeout == 100

\* time.sleep(0.5) of the reset handshake, tenths of a second
poll_interval == 5

\* crash penalty, tenths (totalReward -= 50)
crash_penalty == 500

\* the most identifiers one getDREFs asks for, the most requests and the most
\* sendCTRL commands on one socket
MaxDrefs == 2
MaxRequests == 3
MaxCommands == 2

-----------------------------------------------------------------------------
(* Observations *)

\* np.zeros((7,)) / [0.0] * expected_length
Zero7 == [i \in 1..expected_length |-> 0]

\* a length-7 reply in the air, below 700 m:
\* [altitude, pitch, roll, heading, lat, lon, airspeed]
ObsAir == <<300, 10, 0, 180, 47, 122, 50>>

\* a corrupt reply: 6 elements
ObsShort == <<300, 10, 0, 180, 47, 122>>

\* the replies getObs gives when it returns
ObsSamples == {ObsAir, ObsShort}

\* a value of ControlParameters.state7: a Python list or a numpy array
List(v) == [kind |-> "list", val |-> v]
NdArray(v) == [kind |-> "ndarray", val |-> v]


\* bool(state7) as Python evaluates it in `if ... and self.ControlParameters.state7:`
\* a list is true iff it is not empty; a numpy array of more than one element
\* raises ValueError, one element is its own truth value, an empty one is false
Truthy(c) ==
    IF c.kind = "list" THEN (IF Len(c.val) > 0 THEN "true" ELSE "false")
    ELSE IF Len(c.val) > 1 THEN "ValueError"
    ELSE IF Len(c.val) = 1 /\ c.val[1] # 0 THEN "true" ELSE "false"

Abs(x) == IF x < 0 THEN -x ELSE x

Min(a, b) == IF a < b THEN a ELSE b

Max(a, b) == IF a > b THEN a ELSE b

\* the reward of one step, in tenths; obs is the (validated or substituted)
\* observation and throttle is act[3]
Reward(obs, throttle) ==
    LET altitude == obs[1]
        pitch == obs[2]
        roll == obs[3]
        true_speed == obs[7]
        is_airborne == altitude > 200 /\ true_speed > 30
    IN  IF ~is_airborne
        THEN 100 * throttle
             + (IF true_speed > 0 THEN Min(true_speed, 30) ELSE 0)
             - 2 * Abs(roll)
        ELSE IF altitude < 700
        THEN 50 * throttle
             + (IF 5 <= pitch /\ pitch <= 20 THEN 10 ELSE -10)
             + (IF Abs(roll) < 15 THEN 10 ELSE -10)
        ELSE (IF 8 <= pitch /\ pitch <= 15 THEN 20 ELSE -10)
             + (IF Abs(roll) < 10 THEN 20 ELSE -10)
             + (IF 80 <= true_speed /\ true_speed <= 300 THEN 20 ELSE -10)

-----------------------------------------------------------------------------
(* Collision detector *)

\* the entities a contact message can name
Entities == {"ground_plane", "building"}

\* _ground_entities of the detector
ground_entities == {"ground::ground_link", "ground_plane", "ground", "plane"}

\* _should_ignore_entity with the settings GlobalEnv.__init__ installs:
\* no ignored entities, set_ignore_ground(True)
should_ignore_entity(e) == e \in ground_entities

\* _fuselage_contact_callback: the new value of _aircraft_colliding after a
\* contact message naming the entities msg (the empty set: no contacts)
fuselage_contact_callback(colliding, msg) ==
    LET entities_in_contact == {e \in msg : ~should_ignore_entity(e)}
    IN  IF msg # {}
        THEN (IF entities_in_contact # {} THEN TRUE ELSE FALSE)
        ELSE colliding

\* the contact messages delivered to the detector, one entity each
Msgs == {{}} \cup {{e} : e \in Entities}

-----------------------------------------------------------------------------
(* Collision detector: its fields, and what each method does while it holds *)
(* the lock.  A method is the set of the runs it can make; a run is the     *)
(* sequence of the detector's states after each of its assignments.         *)

\* AircraftCollisionDetector.__init__
NewDetector ==
    [aircraft_colliding |-> FALSE, collision_entity |-> "None",
     ignored_entities |-> {}, ground_entities |-> ground_entities,
     ignore_ground |-> FALSE, current_collisions |-> {}]

\* ground_name.lower() in entity.lower(), over the names of the model
IsSubstring(g, e) ==
    \/ g = e
    \/ e = "ground_plane" /\ g \in {"ground", "plane"}

\* _is_ground_entity
IsGroundEntity(d, e) == \E g \in d.ground_entities : IsSubstring(g, e)

\* _should_ignore_entity
ShouldIgnoreEntity(d, e) ==
    \/ e \in d.ignored_entities
    \/ d.ignore_ground /\ IsGroundEntity(d, e)

\* _select_priority_entity: next(iter(..)) returns any element of the set
SelectPriorityEntity(d, entities) ==
    IF entities = {} THEN {"None"}
    ELSE IF ~d.ignore_ground THEN entities
    ELSE LET non_ground_entities == {e \in entities : ~IsGroundEntity(d, e)}
         IN  IF non_ground_entities # {} THEN non_ground_entities ELSE entities

\* the entities of a contact message that are not filtered out
EntitiesInContact(d, msg) == {e \in msg : ~ShouldIgnoreEntity(d, e)}

\* _fuselage_contact_callback
FuselageContactCallback(d, msg) ==
    IF msg # {}
    THEN LET d1 == [d EXCEPT !.current_collisions = EntitiesInContact(d, msg)]
         IN  IF EntitiesInContact(d, msg) # {}
             THEN { LET d2 == [d1 EXCEPT !.aircraft_colliding = TRUE]
                    IN  IF d.collision_entity # selected_entity
                        THEN <<d1, d2, [d2 EXCEPT !.collision_entity = selected_entity]>>
                        ELSE <<d1, d2>>
                    : selected_entity \in SelectPriorityEntity(d1, EntitiesInContact(d, msg)) }
             ELSE LET d2 == [d1 EXCEPT !.aircraft_colliding = FALSE]
                      d3 == [d2 EXCEPT !.collision_entity = "None"]
                  IN  { <<d1, d2, d3, [d3 EXCEPT !.current_collisions = {}]>> }
    ELSE { <<>> }

\* set_ignore_ground
SetIgnoreGround(d, ignore) ==
    LET d1 == [d EXCEPT !.ignore_ground = ignore]
        valid_entities == {e \in d1.current_collisions : ~ShouldIgnoreEntity(d1, e)}
    IN  IF d1.current_collisions # {}
        THEN IF valid_entities # {}
             THEN { IF d1.collision_entity # selected_entity
                    THEN LET d2 == [d1 EXCEPT !.aircraft_colliding = TRUE]
                         IN  <<d1, d2, [d2 EXCEPT !.collision_entity = selected_entity]>>
                    ELSE <<d1>>
                    : selected_entity \in SelectPriorityEntity(d1, valid_entities) }
             ELSE LET d2 == [d1 EXCEPT !.aircraft_colliding = FALSE]
                  IN  { <<d1, d2, [d2 EXCEPT !.collision_entity = "None"]>> }
        ELSE { <<d1>> }

\* add_ignored_entity
AddIgnoredEntity(d, entity_name) ==
    LET d1 == [d EXCEPT !.ignored_entities = @ \cup {entity_name}]
    IN  IF d1.aircraft_colliding /\ d1.collision_entity = entity_name
        THEN LET d2 == [d1 EXCEPT !.aircraft_colliding = FALSE]
             IN  { <<d1, d2, [d2 EXCEPT !.collision_entity = "None"]>> }
        ELSE { <<d1>> }

\* remove_ignored_entity
RemoveIgnoredEntity(d, entity_name) ==
    { <<[d EXCEPT !.ignored_entities = @ \ {entity_name}]>> }

\* clear_ignored_entities
ClearIgnoredEntities(d) == { <<[d EXCEPT !.ignored_entities = {}]>> }

\* add_ground_entity
AddGroundEntity(d, entity_name) ==
    { <<[d EXCEPT !.ground_entities = @ \cup {entity_name}]>> }

\* a reset that forgets the entity's field; C38 tells it from the code's
ResetFlagOnly(d) == { <<[d EXCEPT !.aircraft_colliding = FALSE]>> }

\* reset_collision_state
ResetCollisionState(d) ==
    LET d1 == [d EXCEPT !.aircraft_colliding = FALSE]
    IN  { <<d1, [d1 EXCEPT !.collision_entity = "None"]>> }

\* is_colliding, and has_collision_occurred which calls it
IsColliding(d) == d.aircraft_colliding

\* get_collision_entity
GetCollisionEntity(d) == d.collision_entity

\* get_collision_status
GetCollisionStatus(d) ==
    IF d.aircraft_colliding
    THEN <<TRUE, IF d.collision_entity \in {"None", ""}
                 THEN "Unknown entity" ELSE d.collision_entity>>
    ELSE <<FALSE, "No collision">>

\* the threads that call the detector: the transport's callback thread and
\* the thread of the environment
Threads == {"callback", "caller"}

Idle == [op |-> "idle", arg |-> <<>>, todo |-> <<>>]

\* no getter has returned yet
NoReturn == [op |-> "none", val |-> <<>>, struck |-> FALSE, quiet |-> FALSE]

\* the detector after construction: the lock is free, no call is in progress.
\* struck: a contact with an entity that is not filtered out was delivered
\* and only contact messages have been delivered since; quiet:
\* reset_collision_state was called and no such contact was delivered since
DetectorInit ==
    [d |-> NewDetector, lock |-> "free", th |-> [t \in Threads |-> Idle],
     ret |-> NoReturn, struck |-> FALSE, quiet |-> FALSE]

-----------------------------------------------------------------------------
(* XPlaneInterface.resetPOSI *)

\* the attributes XPlaneInterface.__init__ sets on the instance
XPlaneInterfaceAttrs == {"xplane_client", "initialized"}

\* the handshake loop: each poll reads the acknowledgement dataref through
\* self.client; elapsed is the time since start_time, polls the number of polls
\* made.  ack is the value the simulator's acknowledgement dataref holds.
RECURSIVE PollLoop(_, _, _)
PollLoop(elapsed, polls, ack) ==
    IF elapsed < timeout
    THEN IF "client" \in XPlaneInterfaceAttrs /\ ack = 1
         THEN [polls |-> polls + 1, acked |-> TRUE, expired |-> FALSE, raised |-> FALSE]
         ELSE PollLoop(elapsed + poll_interval, polls + 1, ack)
    ELSE \* while ... else: self.timeout_incidents += 1 on the interface object
         [polls |-> polls, acked |-> FALSE, expired |-> TRUE,
          raised |-> ~("timeout_incidents" \in XPlaneInterfaceAttrs)]

\* posi: whether the sendPOSI/setDREF/sendDATA sequence of the underlying
\* client succeeds ("ok") or raises ("raise")
resetPOSI(posi, ack) ==
    IF posi = "ok"
    THEN [sent |-> TRUE, polls |-> 0, acked |-> FALSE, expired |-> FALSE, raised |-> FALSE]
    ELSE [sent |-> FALSE] @@ PollLoop(0, 0, ack)

-----------------------------------------------------------------------------
(* The replies of the X-Plane client that getObs reads *)

\* the number of datarefs getObs asks for, and of rows it requires of the reply
dref_rows == 7

\* the number of fields getObs requires of a position reply
posi_fields == 6

\* a field of a reply: a number, None, or a string float() rejects
Num(n) == [kind |-> "num", val |-> n]
NoneField == [kind |-> "none", val |-> 0]
StrField == [kind |-> "str", val |-> 0]

\* a reply or a row of it: None, a list or tuple, or the call raising
NoneReply == [kind |-> "none", val |-> <<>>]
RaiseReply == [kind |-> "raise", val |-> <<>>]
SeqOf(v) == [kind |-> "seq", val |-> v]

\* source A, in the order of drefForPositions: elevation, theta, phi, psi,
\* longitude, latitude, indicated_airspeed
DrefValues == <<300, 10, 1, 180, 122, 47, 50>>
DrefNegative == <<300, 10, 1, 180, 122, 47, -5>>
DrefRows(vals) == [i \in 1..Len(vals) |-> SeqOf(<<Num(vals[i])>>)]

\* getDREFs after a socket timeout or any other failure of the read, and after
\* a reply shorter than 6 bytes: one empty row per dataref asked for
DrefTimedOut == SeqOf([i \in 1..dref_rows |-> SeqOf(<<>>)])

\* a row getObs cannot read a number from: empty (getDREFs appends [] when the
\* buffer is too short for the row), None, or holding None or a string
BadRows == {SeqOf(<<>>), NoneReply, SeqOf(<<NoneField>>), SeqOf(<<StrField>>)}

\* the replies of xplane_client.getDREFs
DrefReplies ==
    {NoneReply, RaiseReply, SeqOf(<<>>), SeqOf(DrefRows(SubSeq(DrefValues, 1, 6))),
     DrefTimedOut, SeqOf(DrefRows(DrefValues)), SeqOf(DrefRows(DrefNegative))}
    \cup {SeqOf([DrefRows(DrefValues) EXCEPT ![k] = row]) :
             k \in 1..dref_rows, row \in BadRows}

\* source B, in the order of getPOSI: latitude, longitude, altitude, pitch,
\* roll, heading, gear
PosiValues == <<48, 123, 310, 11, 2, 181, 1>>
PosiFields(vals) == [i \in 1..Len(vals) |-> Num(vals[i])]

\* the replies of xplane_client.getPOSI
PosiReplies ==
    {NoneReply, RaiseReply, SeqOf(PosiFields(SubSeq(PosiValues, 1, 5))),
     SeqOf(PosiFields(SubSeq(PosiValues, 1, 6))), SeqOf(PosiFields(PosiValues))}
    \cup {SeqOf([PosiFields(PosiValues) EXCEPT ![k] = NoneField]) : k \in 1..posi_fields}

-----------------------------------------------------------------------------
(* XPlaneInterface.getObs *)

\* what a call of getObs gave: the observation, the decision path that built
\* it, and whether an exception left the call
Obs(obs, path) == [obs |-> obs, path |-> path, raised |-> FALSE]
ObsRaise(path) == [obs |-> <<>>, path |-> path, raised |-> TRUE]

\* float(x): defined on numbers; TypeError on None, ValueError on the string
FloatOk(x) == x.kind = "num"

\* the guard of a row of A (0-based i - 1): present, not None, a list or tuple,
\* not empty
RowValid(A, i) ==
    /\ i <= Len(A.val)
    /\ A.val[i].kind = "seq"
    /\ Len(A.val[i].val) > 0

\* a field of A that defaults to 1.0; C16 tells it from the code's
DrefFieldDefaultOne(A, i) ==
    IF RowValid(A, i)
    THEN [ok |-> FloatOk(A.val[i].val[1]), v |-> A.val[i].val[1].val]
    ELSE [ok |-> TRUE, v |-> 1]

\* one field of the DREF-based observation: float(A[i][0]) under the guard,
\* else 0.0; ok is FALSE when float raises
DrefField(A, i) ==
    IF RowValid(A, i)
    THEN [ok |-> FloatOk(A.val[i].val[1]), v |-> A.val[i].val[1].val]
    ELSE [ok |-> TRUE, v |-> 0]

\* an airspeed taken as reported; C20 tells it from the code's
AirspeedUnclamped(A) ==
    IF RowValid(A, 7)
    THEN LET airspeed_raw == A.val[7].val[1]
         IN  IF FloatOk(airspeed_raw) THEN airspeed_raw.val ELSE 0
    ELSE 0

\* the airspeed, read from row 6 of A: max(0.0, float(raw)), and 0.0 when the
\* row fails its guard, the value is None or "", or float raises
Airspeed(A) ==
    IF RowValid(A, 7)
    THEN LET airspeed_raw == A.val[7].val[1]
         IN  IF FloatOk(airspeed_raw) THEN Max(0, airspeed_raw.val) ELSE 0
    ELSE 0

\* the validation of B: not None, a list or tuple, at least 6 fields
PosiAvailable(B) == B.kind = "seq" /\ Len(B.val) >= posi_fields

\* the validation of A fails: None, not a list or tuple, or fewer than 7 rows
DrefInsufficient(A) == A.kind # "seq" \/ Len(A.val) < dref_rows

\* all six float(B[k]) of a position read succeed (IndexError on a short B)
PosiReadable(B) ==
    /\ Len(B.val) >= posi_fields
    /\ \A k \in 1..posi_fields : FloatOk(B.val[k])

\* altitude, pitch, roll, heading, latitude, longitude as the position paths
\* read them: B[2], B[3], B[4], B[5], B[1], B[0]
PosiSix(B) ==
    <<B.val[3].val, B.val[4].val, B.val[5].val, B.val[6].val,
      B.val[2].val, B.val[1].val>>

\* the DREF branch: rows 0..3, then latitude from row 5 and longitude from
\* row 4; ok is FALSE when a float raised (the branch then sets use_dref False)
DrefStage(A) ==
    LET f == [i \in 1..6 |-> DrefField(A, i)]
    IN  [ok |-> \A i \in 1..6 : f[i].ok,
         v |-> <<f[1].v, f[2].v, f[3].v, f[4].v, f[6].v, f[5].v>>]

\* an outer handler that lets the exception go; C19 tells it from the code's
ExceptHandlerReraise(r) == r

\* the outer `except Exception`: the all-zero observation
ExceptHandler(r) ==
    IF r.raised THEN Obs(Zero7, "except") ELSE r

\* the try block of getObs
getObsBody(use_dref, A, B) ==
    IF A.kind = "raise" THEN ObsRaise("getDREFs")
    ELSE IF B.kind = "raise" THEN ObsRaise("getPOSI")
    ELSE IF DrefInsufficient(A)
    THEN IF PosiAvailable(B)
         THEN IF PosiReadable(B)
              THEN Obs(PosiSix(B) \o <<0>>, "posi_only")
              ELSE ObsRaise("posi_only")
         ELSE Obs(Zero7, "both_unavailable")
    ELSE LET use1 == use_dref \/ ~PosiAvailable(B)
             airspeed == Airspeed(A)
             dref == DrefStage(A)
         IN  IF use1 /\ dref.ok
             THEN Obs(dref.v \o <<airspeed>>, "dref")
             ELSE IF B.kind # "none"
             THEN IF PosiReadable(B)
                  THEN Obs(PosiSix(B) \o <<airspeed>>, "posi")
                  ELSE Obs(<<0, 0, 0, 0, 0, 0, airspeed>>, "posi_default")
             ELSE IF use1
             THEN \* the DREF branch bound flight_data and raised before
                  \* longitude was bound: unified_obs raises
                  ObsRaise("unified_obs")
             ELSE Obs(<<0, 0, 0, 0, 0, 0, airspeed>>, "defaults")

\* XPlaneInterface.getObs(use_dref) on an interface whose initialized flag is
\* initialized, the client replying A to getDREFs and B to getPOSI
getObs(initialized, use_dref, A, B) ==
    IF ~initialized
    THEN Obs(Zero7, "uninitialized")
    ELSE ExceptHandler(getObsBody(use_dref, A, B))

-----------------------------------------------------------------------------
(* JSBSimInterface.getObs and UnifiedFlightInterface.getObs *)

\* jsb_client.getObs: lat, lon, alt_ft, roll, pitch, heading, airspeed,
\* v_speed, throttle_pos, elevator_pos, aileron_pos, rudder_pos
JsbValues == <<48, 123, 310, 2, 11, 181, 50, 0, 1, 0, 0, 0>>

\* the replies of jsb_client.getObs
JsbReplies ==
    {NoneReply, RaiseReply, SeqOf(PosiFields(SubSeq(JsbValues, 1, 6))),
     SeqOf(PosiFields(SubSeq(JsbValues, 1, 7))), SeqOf(PosiFields(JsbValues))}
    \cup {SeqOf([PosiFields(JsbValues) EXCEPT ![k] = NoneField]) : k \in 1..7}

\* JSBSimInterface.getObs
JSBSimGetObs(initialized, J) ==
    IF ~initialized THEN Obs(Zero7, "uninitialized")
    ELSE IF J.kind = "raise" THEN Obs(Zero7, "except")
    ELSE IF J.kind = "none" \/ Len(J.val) < 7 THEN Obs(Zero7, "insufficient")
    ELSE IF \A k \in 1..7 : FloatOk(J.val[k])
    THEN Obs(<<J.val[3].val, J.val[5].val, J.val[4].val, J.val[6].val,
               J.val[1].val, J.val[2].val, J.val[7].val>>, "jsbsim")
    ELSE Obs(Zero7, "except")

\* the engines UnifiedFlightInterface wraps
Engines == {"xplane", "jsbsim"}

\* UnifiedFlightInterface.getObs: the wrapped interface's, which the
\* constructor has found initialized
UnifiedGetObs(engine, use_dref, A, B, J) ==
    IF engine = "xplane" THEN getObs(TRUE, use_dref, A, B) ELSE JSBSimGetObs(TRUE, J)

\* no call of getObs yet
NoObsCall ==
    [op |-> "none", initialized |-> FALSE, use_dref |-> FALSE,
     A |-> NoneReply, B |-> NoneReply, J |-> NoneReply, r |-> Obs(Zero7, "none")]

-----------------------------------------------------------------------------
(* XPlaneConnect (xpc.py): buffers and struct.pack / struct.unpack             *)
(*                                                                           *)
(* A buffer is a sequence of bytes.  A multi-byte field is its head byte,    *)
(* the pair of the field's format and value, followed by continuation        *)
(* bytes, so that lengths and offsets are those of the wire: "4s" is 4       *)
(* bytes, "f" 4, "d" 8, "i" 4, "H" 2, "B", "b" and "x" 1.  Values are        *)
(* integers.                                                                 *)

\* the largest n such that every integer up to n in magnitude is a single
single_exact == 16777216

\* the value a single-precision field holds for v (round to nearest, ties to
\* even; the model's values stay below 2 * single_exact in magnitude)
Single(v) ==
    IF Abs(v) <= single_exact THEN v
    ELSE IF v % 2 = 0 THEN v
    ELSE IF (v + 1) % 4 = 0 THEN v + 1 ELSE v - 1

\* one byte: the head of a field of format fmt and value v
Field(fmt, v) == <<fmt, v>>

\* n bytes that continue a field
Cont(n) == [j \in 1..n |-> Field("~", 0)]

\* a header that leaves the tag out; C30 tells it from the code's
Pack4sNoTag(tag) == Cont(4)

\* struct.pack of one field
Pack4s(tag) == <<Field("s", tag)>> \o Cont(3)
PackX == <<Field("B", 0)>>
PackB(n) == <<Field("B", n)>>
PackSignedB(n) == <<Field("B", n % 256)>>
PackF(v) == <<Field("f", Single(v))>> \o Cont(3)
PackD(v) == <<Field("d", v)>> \o Cont(7)
PackI(v) == <<Field("i", v)>> \o Cont(3)
PackH(v) == <<Field("H", v)>> \o Cont(1)

\* struct.unpack of one field at the 0-based offset off.  A field read where
\* another kind of field was written gives the bytes' value in the other
\* format, which the model takes as 0 (the tag: "????")
TagAt(buf, off) == IF buf[off + 1][1] = "s" THEN buf[off + 1][2] ELSE "????"
ByteAt(buf, off) == IF buf[off + 1][1] = "B" THEN buf[off + 1][2] ELSE 0
SignedByteAt(buf, off) ==
    LET b == ByteAt(buf, off) IN IF b > 127 THEN b - 256 ELSE b
FloatAt(buf, off) == IF buf[off + 1][1] = "f" THEN buf[off + 1][2] ELSE 0
DoubleAt(buf, off) == IF buf[off + 1][1] = "d" THEN buf[off + 1][2] ELSE 0

\* what a command did: the exception it raised ("none": it returned), the
\* buffer it handed to sendUDP (<<>>: none) and what it returned
Sent(buffer) == [raised |-> "none", sent |-> buffer, ret |-> NoneReply]
Raises(e) == [raised |-> e, sent |-> <<>>, ret |-> NoneReply]

\* what readUDP does in a query: it raises socket.timeout or another error
\* of the socket, or returns a datagram
Timeout == [kind |-> "timeout", buf |-> <<>>]
SocketError == [kind |-> "error", buf |-> <<>>]
NoReceive == [kind |-> "unused", buf |-> <<>>]
Datagram(buf) == [kind |-> "data", buf |-> buf]

-----------------------------------------------------------------------------
(* XPlaneConnect.sendPOSI and getPOSI *)

\* the sentinel of an unset slot
sentinel == -998

\* the value of slot i (0-based) of a command given values
SlotValue(values, i) == IF i < Len(values) THEN values[i + 1] ELSE sentinel

\* a slot encoding that is single precision throughout; C26 tells it from
\* the code's
PosiSlotAllSingle(values, i) == PackF(SlotValue(values, i))

\* one pass of the loop of sendPOSI: slot i, double precision for the first
\* three, single precision after
PosiSlot(values, i) ==
    IF i < 3 THEN PackD(SlotValue(values, i)) ELSE PackF(SlotValue(values, i))

\* a sendPOSI without the checks of its arguments; C25 tells it from the
\* code's
sendPOSIUnchecked(values, ac) ==
    Sent(Pack4s("POSI") \o PackX \o PackB(ac % 256)
         \o PosiSlot(values, 0) \o PosiSlot(values, 1) \o PosiSlot(values, 2)
         \o PosiSlot(values, 3) \o PosiSlot(values, 4) \o PosiSlot(values, 5)
         \o PosiSlot(values, 6))

\* XPlaneConnect.sendPOSI(values, ac)
sendPOSI(values, ac) ==
    IF Len(values) < 1 \/ Len(values) > 7 THEN Raises("ValueError")
    ELSE IF ac < 0 \/ ac > 20 THEN Raises("ValueError")
    ELSE Sent(Pack4s("POSI") \o PackX \o PackB(ac)
              \o PosiSlot(values, 0) \o PosiSlot(values, 1) \o PosiSlot(values, 2)
              \o PosiSlot(values, 3) \o PosiSlot(values, 4) \o PosiSlot(values, 5)
              \o PosiSlot(values, 6))

\* a decoder that reads every reply of at least 34 bytes as the
\* single-precision layout; C24 tells it from the code's
DecodePOSISingleOnly(resultBuf) ==
    IF Len(resultBuf) < 34 THEN NoneReply
    ELSE IF TagAt(resultBuf, 0) # "POSI" THEN NoneReply
    ELSE SeqOf([i \in 1..7 |-> FloatAt(resultBuf, 6 + 4 * (i - 1))])

\* a decoder that returns longitude before latitude; C29 tells it from the
\* code's
DecodePOSILonLat(resultBuf) ==
    IF Len(resultBuf) \notin {34, 46} THEN NoneReply
    ELSE IF TagAt(resultBuf, 0) # "POSI" THEN NoneReply
    ELSE IF Len(resultBuf) = 34
    THEN SeqOf([i \in 1..7 |->
                  FloatAt(resultBuf, 6 + 4 * ((IF i <= 2 THEN 3 - i ELSE i) - 1))])
    ELSE SeqOf([i \in 1..7 |->
                  IF i <= 3
                  THEN DoubleAt(resultBuf, 6 + 8 * ((IF i <= 2 THEN 3 - i ELSE i) - 1))
                  ELSE FloatAt(resultBuf, 30 + 4 * (i - 4))])

\* the decoding of getPOSI: the branch on the reply's length, the check of
\* the tag, and result[2:]
DecodePOSI(resultBuf) ==
    IF Len(resultBuf) = 34
    THEN IF TagAt(resultBuf, 0) # "POSI" THEN NoneReply
         ELSE SeqOf([i \in 1..7 |-> FloatAt(resultBuf, 6 + 4 * (i - 1))])
    ELSE IF Len(resultBuf) = 46
    THEN IF TagAt(resultBuf, 0) # "POSI" THEN NoneReply
         ELSE SeqOf([i \in 1..7 |->
                       IF i <= 3 THEN DoubleAt(resultBuf, 6 + 8 * (i - 1))
                       ELSE FloatAt(resultBuf, 30 + 4 * (i - 4))])
    ELSE NoneReply

\* a receive handler that lets the timeout go; C23 tells it from the code's
OnReceiveReraise(recv, onTimeout, decoded) ==
    IF recv.kind = "timeout"
    THEN [raised |-> "socket.timeout", ret |-> NoneReply]
    ELSE IF recv.kind = "error"
    THEN [raised |-> "none", ret |-> onTimeout]
    ELSE [raised |-> "none", ret |-> decoded]

\* the try/except around readUDP and the decoding in a query: the timeout and
\* every other exception end in the query's fallback value
OnReceive(recv, onTimeout, decoded) ==
    IF recv.kind \in {"timeout", "error"}
    THEN [raised |-> "none", ret |-> onTimeout]
    ELSE [raised |-> "none", ret |-> decoded]

\* XPlaneConnect.getPOSI(ac), readUDP doing recv
getPOSI(ac, recv) ==
    LET buffer == Pack4s("GETP") \o PackX \o PackB(ac)
        r == OnReceive(recv, NoneReply, DecodePOSI(recv.buf))
    IN  [raised |-> r.raised, sent |-> buffer, ret |-> r.ret]

-----------------------------------------------------------------------------
(* XPlaneConnect.sendCTRL and getCTRL *)

\* a gear slot that carries the sentinel as it is; C27 tells it from the
\* code's
GearSlotSentinel(values) ==
    LET val == SlotValue(values, 4)
    IN  IF val # sentinel /\ (val < -128 \/ val > 127)
        THEN [ok |-> FALSE, bytes |-> <<>>]
        ELSE [ok |-> TRUE, bytes |-> PackSignedB(val)]

\* slot 4 of sendCTRL, the gear, a signed byte: an unset gear (the sentinel)
\* becomes -1; struct.pack("b", ..) raises struct.error outside -128..127
GearSlot(values) ==
    LET val0 == SlotValue(values, 4)
        val == IF val0 = sentinel THEN -1 ELSE val0
    IN  IF val < -128 \/ val > 127 THEN [ok |-> FALSE, bytes |-> <<>>]
        ELSE [ok |-> TRUE, bytes |-> PackSignedB(val)]

\* XPlaneConnect.sendCTRL(values, ac)
sendCTRL(values, ac) ==
    IF Len(values) < 1 \/ Len(values) > 7 THEN Raises("ValueError")
    ELSE IF ac < 0 \/ ac > 20 THEN Raises("ValueError")
    ELSE IF ~GearSlot(values).ok THEN Raises("struct.error")
    ELSE Sent(Pack4s("CTRL") \o PackX
              \o PackF(SlotValue(values, 0)) \o PackF(SlotValue(values, 1))
              \o PackF(SlotValue(values, 2)) \o PackF(SlotValue(values, 3))
              \o GearSlot(values).bytes \o PackF(SlotValue(values, 5))
              \o PackB(ac)
              \o (IF Len(values) = 7 THEN PackF(values[7]) ELSE <<>>))

\* the decoding of getCTRL: "<4sxffffbfBf" on 31 bytes, the check of the tag,
\* and result[1:7] + result[8:]
DecodeCTRL(resultBuf) ==
    IF Len(resultBuf) # 31 THEN NoneReply
    ELSE IF TagAt(resultBuf, 0) # "CTRL" THEN NoneReply
    ELSE SeqOf(<<FloatAt(resultBuf, 5), FloatAt(resultBuf, 9),
                 FloatAt(resultBuf, 13), FloatAt(resultBuf, 17),
                 SignedByteAt(resultBuf, 21), FloatAt(resultBuf, 22),
                 FloatAt(resultBuf, 27)>>)

\* XPlaneConnect.getCTRL(ac), readUDP doing recv
getCTRL(ac, recv) ==
    LET buffer == Pack4s("GETC") \o PackX \o PackB(ac)
        r == OnReceive(recv, NoneReply, DecodeCTRL(recv.buf))
    IN  [raised |-> r.raised, sent |-> buffer, ret |-> r.ret]

-----------------------------------------------------------------------------
(* XPlaneConnect.getDREFs and readDATA *)

\* a dataref identifier: the pair of its name and the number of its
\* characters
Dref(name, n) == <<name, n>>
PackName(dref) == <<Field("s", dref[1])>> \o Cont(dref[2] - 1)

RECURSIVE PackDrefNames(_)
PackDrefNames(drefs) ==
    IF drefs = <<>> THEN <<>>
    ELSE PackB(Head(drefs)[2]) \o PackName(Head(drefs))
         \o PackDrefNames(Tail(drefs))

\* [[] for _ in drefs]
EmptyRows(drefs) == SeqOf([i \in 1..Len(drefs) |-> <<>>])

\* the loop of getDREFs from row i on: the rows, or ok = FALSE where
\* struct.unpack_from raises struct.error (the row's length byte lies beyond
\* the buffer)
RECURSIVE ParseRows(_, _, _, _, _)
ParseRows(buffer, resultCount, i, offset, result) ==
    IF i = resultCount THEN [ok |-> TRUE, rows |-> result]
    ELSE IF offset >= Len(buffer) THEN [ok |-> FALSE, rows |-> <<>>]
    ELSE LET rowLen == ByteAt(buffer, offset)
             offset1 == offset + 1
         IN  IF offset1 + rowLen * 4 > Len(buffer)
             THEN ParseRows(buffer, resultCount, i + 1, offset1,
                            Append(result, <<>>))
             ELSE ParseRows(buffer, resultCount, i + 1, offset1 + rowLen * 4,
                            Append(result,
                                   [j \in 1..rowLen |->
                                      FloatAt(buffer, offset1 + 4 * (j - 1))]))

\* the decoding of getDREFs for the identifiers drefs
DecodeDREFs(drefs, buffer) ==
    IF Len(buffer) < 6 THEN EmptyRows(drefs)
    ELSE LET resultCount == ByteAt(buffer, 5)
             r == ParseRows(buffer, resultCount, 0, 6, <<>>)
         IN  IF r.ok THEN SeqOf(r.rows) ELSE EmptyRows(drefs)

\* XPlaneConnect.getDREFs(drefs), readUDP doing recv
getDREFs(drefs, recv) ==
    LET buffer == Pack4s("GETD") \o PackX \o PackB(Len(drefs))
                  \o PackDrefNames(drefs)
        r == OnReceive(recv, EmptyRows(drefs), DecodeDREFs(drefs, recv.buf))
    IN  [raised |-> r.raised, sent |-> buffer, ret |-> r.ret]

\* the decoding of readDATA: rows of 9 singles after the 5-byte header
DecodeDATA(buffer) ==
    IF Len(buffer) < 6 THEN NoneReply
    ELSE SeqOf([i \in 1..((Len(buffer) - 5) \div 36) |->
                  [j \in 1..9 |->
                     FloatAt(buffer, 5 + 36 * (i - 1) + 4 * (j - 1))]])

\* XPlaneConnect.readDATA(), readUDP doing recv
readDATA(recv) ==
    LET r == OnReceive(recv, NoneReply, DecodeDATA(recv.buf))
    IN  [raised |-> r.raised, sent |-> <<>>, ret |-> r.ret]

-----------------------------------------------------------------------------
(* XPlaneConnect: the other commands *)

PackFloats(values) ==
    [i \in 1..(4 * Len(values)) |-> PackF(values[(i + 3) \div 4])[((i - 1) % 4) + 1]]

\* XPlaneConnect.setCONN(port), up to the datagram it sends
setCONN(port) ==
    IF port < 0 \/ port > 65535 THEN Raises("ValueError")
    ELSE Sent(Pack4s("CONN") \o PackX \o PackH(port))

\* XPlaneConnect.pauseSim(pause)
pauseSim(pause) ==
    IF pause < 0 \/ pause > 2 THEN Raises("ValueError")
    ELSE Sent(Pack4s("SIMU") \o PackX \o PackB(pause))

\* "<I8f" of one row of sendDATA
PackDataRow(row) == PackI(row[1]) \o PackFloats(Tail(row))

RECURSIVE PackDataRows(_)
PackDataRows(data) ==
    IF data = <<>> THEN <<>>
    ELSE PackDataRow(Head(data)) \o PackDataRows(Tail(data))

\* XPlaneConnect.sendDATA(data)
sendDATA(data) ==
    IF Len(data) > 134 THEN Raises("ValueError")
    ELSE IF \E i \in 1..Len(data) : Len(data[i]) # 9 THEN Raises("ValueError")
    ELSE Sent(Pack4s("DATA") \o PackX \o PackDataRows(data))

\* one dataref of sendDREFs: its name and its values
RECURSIVE PackDrefValues(_, _)
PackDrefValues(drefs, values) ==
    IF drefs = <<>> THEN <<>>
    ELSE PackB(Head(drefs)[2]) \o PackName(Head(drefs))
         \o PackB(Len(Head(values))) \o PackFloats(Head(values))
         \o PackDrefValues(Tail(drefs), Tail(values))

\* XPlaneConnect.sendDREFs(drefs, values), each value a sequence of floats
sendDREFs(drefs, values) ==
    IF Len(drefs) # Len(values) THEN Raises("ValueError")
    ELSE IF \E i \in 1..Len(drefs) : drefs[i][2] = 0 \/ drefs[i][2] > 255
    THEN Raises("ValueError")
    ELSE IF \E i \in 1..Len(values) : Len(values[i]) > 255
    THEN Raises("ValueError")
    ELSE Sent(Pack4s("DREF") \o PackX \o PackDrefValues(drefs, values))

\* XPlaneConnect.sendTEXT(msg, x, y), msg a text of msgLen characters
sendTEXT(msgLen, x, y) ==
    IF y < -1 THEN Raises("ValueError")
    ELSE Sent(Pack4s("TEXT") \o PackX \o PackI(x) \o PackI(y)
              \o PackB(msgLen) \o Cont(msgLen))

\* XPlaneConnect.sendVIEW(view)
sendVIEW(view) ==
    IF view < 73 \/ view > 85 THEN Raises("ValueError")
    ELSE Sent(Pack4s("VIEW") \o PackX \o PackI(view))

\* the largest value struct.pack("B", ..) encodes
byte_max == 255

\* XPlaneConnect.sendWYPT(op, points), up to the datagram it sends: the count
\* byte holds len(points), the number of floats
sendWYPT(op, points) ==
    IF op < 1 \/ op > 3 THEN Raises("ValueError")
    ELSE IF Len(points) % 3 # 0 THEN Raises("ValueError")
    ELSE IF Len(points) \div 3 > 255 THEN Raises("ValueError")
    ELSE IF op = 3 THEN Sent(Pack4s("WYPT") \o PackX \o PackB(3) \o PackB(0))
    ELSE IF Len(points) > byte_max THEN Raises("struct.error")
    ELSE Sent(Pack4s("WYPT") \o PackX \o PackB(op) \o PackB(Len(points))
              \o PackFloats(points))

-----------------------------------------------------------------------------
(* XPlaneConnect: the socket, and the record of a call *)

\* a datagram of the simulator: the request it answers (req), the number of
\* sendCTRL commands the simulator had received when it answered (snap), and
\* its bytes
NoDatagram == [req |-> 0, snap |-> 0, buf |-> <<>>]

\* the socket after construction: nothing received (sock), nothing on its
\* way (late), no request and no sendCTRL sent
NoTraffic == [sock |-> <<>>, late |-> {}, nreq |-> 0, nctrl |-> 0]

\* the record of a call: its arguments, what readUDP did, the call's outcome
\* r, the number of its request, the datagram it consumed and the number of
\* sendCTRL commands sent before it
XpcCall(op, values, ac, drefs, recv, r, req, got, ctrl) ==
    [op |-> op, values |-> values, ac |-> ac, drefs |-> drefs, recv |-> recv,
     raised |-> r.raised, sent |-> r.sent, ret |-> r.ret,
     req |-> req, got |-> got, ctrl |-> ctrl]

NoXpcCall ==
    XpcCall("none", <<>>, 0, <<>>, NoReceive, Raises("none"), 0, NoDatagram, 0)

-----------------------------------------------------------------------------
(* The flight interface: construction, sendCTRL and close *)

\* the values sendCTRL returns: a bool or a list
PyBool(b) == [kind |-> "bool", b |-> b, list |-> <<>>]
PyList(l) == [kind |-> "list", b |-> FALSE, list |-> l]
PyNone == [kind |-> "None", b |-> FALSE, list |-> <<>>]

\* bool(v), as `if success` evaluates it: a list is true unless it is empty
IsSuccess(v) ==
    CASE v.kind = "bool" -> v.b
      [] v.kind = "list" -> v.list # <<>>
      [] OTHER -> FALSE

\* an engine selector: a member of PhysicsEngine, a member of another Enum,
\* a string, or None
Selector(type, value) == <<type, value>>
JSBSIM == Selector("PhysicsEngine", "jsbsim")
XPLANE == Selector("PhysicsEngine", "xplane")

\* the selector has the attribute .value
HasValue(sel) == sel[1] \in {"PhysicsEngine", "Enum"}

\* str.lower() over the strings of the model
Lower(str) ==
    CASE str = "XPlane" -> "xplane"
      [] str = "JSBSIM" -> "jsbsim"
      [] OTHER -> str

\* an interface object: its class, its engine, its flag initialized, whether
\* it holds a client and the client's socket
Object(cls, engine, initialized, client, socket) ==
    [cls |-> cls, engine |-> engine, initialized |-> initialized,
     client |-> client, socket |-> socket]

NoObject == Object("none", "none", FALSE, FALSE, "None")

\* how the construction of the client goes: it succeeds, the client's
\* constructor raises, initializeJsb returns False, resetJsb raises
ClientOutcomes == {"ok", "client_raises", "initialize_false", "reset_raises"}

\* XPlaneInterface.__init__
XPlaneInterfaceInit(outcome) ==
    IF outcome = "client_raises"
    THEN Object("XPlaneInterface", "xplane", FALSE, FALSE, "None")
    ELSE Object("XPlaneInterface", "xplane", TRUE, TRUE, "open")

\* JSBSimInterface.__init__
JSBSimInterfaceInit(outcome) ==
    IF outcome = "client_raises"
    THEN Object("JSBSimInterface", "jsbsim", FALSE, FALSE, "None")
    ELSE IF outcome = "initialize_false"
    THEN Object("JSBSimInterface", "jsbsim", FALSE, TRUE, "open")
    ELSE IF outcome = "reset_raises"
    THEN Object("JSBSimInterface", "jsbsim", FALSE, TRUE, "open")
    ELSE Object("JSBSimInterface", "jsbsim", TRUE, TRUE, "open")

\* the outcome of a constructor: what it raised and the object it returned
Constructed(o) == [raised |-> "none", obj |-> o]
CtorRaises(e) == [raised |-> e, obj |-> NoObject]

\* UnifiedFlightInterface.__init__: the banner reads physics_engine.value
\* before the engine is looked at
UnifiedFlightInterfaceInit(physics_engine, outcome) ==
    IF ~HasValue(physics_engine) THEN CtorRaises("AttributeError")
    ELSE IF physics_engine \notin {JSBSIM, XPLANE} THEN CtorRaises("ValueError")
    ELSE LET interface == IF physics_engine = JSBSIM
                          THEN JSBSimInterfaceInit(outcome)
                          ELSE XPlaneInterfaceInit(outcome)
         IN  IF ~interface.initialized THEN CtorRaises("RuntimeError")
             ELSE Constructed([interface EXCEPT !.cls = "UnifiedFlightInterface"])

\* create_flight_interface
create_flight_interface(engine_type, outcome) ==
    IF engine_type[1] # "str" THEN CtorRaises("AttributeError")
    ELSE IF Lower(engine_type[2]) = "jsbsim"
    THEN UnifiedFlightInterfaceInit(JSBSIM, outcome)
    ELSE IF Lower(engine_type[2]) = "xplane"
    THEN UnifiedFlightInterfaceInit(XPLANE, outcome)
    ELSE CtorRaises("ValueError")

\* the outcome of sendCTRL: what it returned and what was sent
CtrlResult(ret, sentData) == [ret |-> ret, sent |-> sentData]

\* XPlaneInterface.sendCTRL; sendFails: the socket's sendto raises
XPlaneInterfaceSendCTRL(o, actions, sendFails) ==
    IF ~o.initialized THEN CtrlResult(PyBool(FALSE), <<>>)
    ELSE IF \/ sendCTRL(actions, 0).raised # "none"
            \/ sendFails
            \/ o.socket = "None"
    THEN CtrlResult(PyList(Zero7), <<>>)
    ELSE CtrlResult(PyBool(TRUE), sendCTRL(actions, 0).sent)

\* what JSBSImClient.sendAction does: it returns True or False, or raises
SendActionOutcomes == {"True", "False", "raises"}

\* JSBSimInterface.sendCTRL; actions[0..3] of a shorter list raises IndexError
JSBSimInterfaceSendCTRL(o, actions, sendAction) ==
    IF ~o.initialized THEN CtrlResult(PyBool(FALSE), <<>>)
    ELSE IF Len(actions) < 4 THEN CtrlResult(PyBool(FALSE), <<>>)
    ELSE IF sendAction = "True"
    THEN CtrlResult(PyBool(TRUE), SubSeq(actions, 1, 4))
    ELSE CtrlResult(PyBool(FALSE), <<>>)

\* UnifiedFlightInterface.sendCTRL hands the call to its variant; outcome is
\* what the backend's send does
UnifiedSendCTRL(o, actions, outcome) ==
    IF o.engine = "xplane"
    THEN XPlaneInterfaceSendCTRL(o, actions, outcome = "raises")
    ELSE JSBSimInterfaceSendCTRL(o, actions, outcome)

\* the outcome of close: whether it raised and the object after it
Closed(raised, o) == [raised |-> raised, obj |-> o]

\* a close of the socket that lets the socket's error out; C33 tells it from
\* the code's
XPlaneConnectCloseReraise(o, fails) ==
    IF o.socket # "None"
    THEN IF fails THEN Closed(TRUE, o)
         ELSE Closed(FALSE, [o EXCEPT !.socket = "None"])
    ELSE Closed(FALSE, o)

\* XPlaneConnect.close; fails: socket.close() raises
XPlaneConnectClose(o, fails) ==
    IF o.socket # "None"
    THEN Closed(FALSE, [o EXCEPT !.socket = "None"])
    ELSE Closed(FALSE, o)

\* XPlaneClient.close
XPlaneClientClose(o, fails) == XPlaneConnectClose(o, fails)

\* XPlaneInterface.close
XPlaneInterfaceClose(o, fails) ==
    IF o.client
    THEN IF XPlaneClientClose(o, fails).raised THEN Closed(FALSE, o)
         ELSE Closed(FALSE, XPlaneClientClose(o, fails).obj)
    ELSE Closed(FALSE, o)

\* JSBSImClient.close: stop_obs_publishing closes obs_socket outside any try
JSBSImClientClose(o, fails) ==
    IF o.socket # "None"
    THEN IF fails THEN Closed(TRUE, o)
         ELSE Closed(FALSE, [o EXCEPT !.socket = "None"])
    ELSE Closed(FALSE, o)

\* JSBSimInterface.close
JSBSimInterfaceClose(o, fails) ==
    IF o.client
    THEN IF JSBSImClientClose(o, fails).raised THEN Closed(FALSE, o)
         ELSE Closed(FALSE, JSBSImClientClose(o, fails).obj)
    ELSE Closed(FALSE, o)

\* UnifiedFlightInterface.close
UnifiedFlightInterfaceClose(o, fails) ==
    IF o.engine = "xplane" THEN XPlaneInterfaceClose(o, fails)
    ELSE JSBSimInterfaceClose(o, fails)

\* GlobalEnv.close: self.client.close() inside try
GlobalEnvClose(o, fails) ==
    IF UnifiedFlightInterfaceClose(o, fails).raised THEN Closed(FALSE, o)
    ELSE Closed(FALSE, UnifiedFlightInterfaceClose(o, fails).obj)

\* the layers close can be called at
CloseLayers == {"GlobalEnv.close", "UnifiedFlightInterface.close",
                "XPlaneInterface.close", "JSBSimInterface.close",
                "XPlaneConnect.close"}

\* the close of a layer on the object o
CloseOf(layer, o, fails) ==
    CASE layer = "GlobalEnv.close" -> GlobalEnvClose(o, fails)
      [] layer = "UnifiedFlightInterface.close" -> UnifiedFlightInterfaceClose(o, fails)
      [] layer = "XPlaneInterface.close" -> XPlaneInterfaceClose(o, fails)
      [] layer = "JSBSimInterface.close" -> JSBSimInterfaceClose(o, fails)
      [] layer = "XPlaneConnect.close" -> XPlaneConnectClose(o, fails)

\* the layers the object o has
HasLayer(layer, o) ==
    CASE layer = "GlobalEnv.close" -> o.cls # "none"
      [] layer = "UnifiedFlightInterface.close" -> o.cls = "UnifiedFlightInterface"
      [] layer = "XPlaneInterface.close" -> o.cls # "none" /\ o.engine = "xplane"
      [] layer = "JSBSimInterface.close" -> o.cls # "none" /\ o.engine = "jsbsim"
      [] layer = "XPlaneConnect.close" -> o.engine = "xplane" /\ o.client

\* the record of a call on the interface: its arguments, how the backend
\* behaved, the object before it, what it raised and returned, what was sent
InterfaceCall(op, sel, actions, outcome, before, raised, ret, sentData) ==
    [op |-> op, sel |-> sel, actions |-> actions, outcome |-> outcome,
     before |-> before, raised |-> raised, ret |-> ret, sent |-> sentData]

NoSelector == Selector("NoneType", "None")

\* no interface has been constructed
NoInterface ==
    [obj |-> NoObject,
     last |-> InterfaceCall("none", NoSelector, <<>>, "none", NoObject, "none",
                            PyNone, <<>>)]

-----------------------------------------------------------------------------
(* GlobalEnv: the state a call works on.  The first ten fields are the        *)
(* program's; the others record the calls the current step/reset has made.    *)

NoResetPOSI == [sent |-> FALSE, polls |-> 0, acked |-> FALSE, expired |-> FALSE, raised |-> FALSE]

\* the program's fields of a working state
Prog(s) ==
    [episode_steps |-> s.episode_steps,
     parking_brake_released |-> s.parking_brake_released,
     timeout_incidents |-> s.timeout_incidents,
     episodes_completed |-> s.episodes_completed,
     flag |-> s.flag,
     isCollision |-> s.isCollision,
     episodeReward |-> s.episodeReward,
     totalReward |-> s.totalReward,
     state7 |-> s.state7,
     aircraft_colliding |-> s.aircraft_colliding]

\* what a call has done so far
NoTrace ==
    [nAttempts |-> 0,          \* attempts of the retry loop
     nSendCTRL |-> 0,          \* client.sendCTRL calls
     nGetObs |-> 0,            \* client.getObs calls
     nBrake |-> 0,             \* client.parkingBrakeRelease calls
     nResetPOSI |-> 0,         \* client.resetPOSI calls
     nDetectorReset |-> 0,     \* collisionDetector.reset_collision_state calls
     rp |-> NoResetPOSI,       \* what the last resetPOSI call did
     resetCalled |-> FALSE,    \* step called self.reset()
     resetRaised |-> FALSE,    \* and that reset raised
     exhausted |-> FALSE,      \* the retry loop ran out of attempts
     obsRead |-> <<>>,         \* the reply getObs gave in the last attempt, <<>> if none
     mismatch |-> "none",      \* what the last attempt did with a reply of the wrong
                               \* length: "substituted", "zeroed" or "raised"
     crashReported |-> FALSE,  \* isCrash() returned 1 in the last attempt
     collisionPolled |-> FALSE,\* is_colliding() returned True in the last attempt
     budgetReached |-> FALSE]  \* episode_steps >= max_episode_steps was true

\* the working state a call starts in
Cur ==
    [episode_steps |-> episode_steps,
     parking_brake_released |-> parking_brake_released,
     timeout_incidents |-> timeout_incidents,
     episodes_completed |-> episodes_completed,
     flag |-> flag,
     isCollision |-> isCollision,
     episodeReward |-> episodeReward,
     totalReward |-> totalReward,
     state7 |-> state7,
     aircraft_colliding |-> aircraft_colliding,
     t |-> NoTrace]

\* what reset may meet: parkingBrakeRelease returns or raises, the position
\* commands of resetPOSI succeed or raise, the acknowledgement dataref is 0 or 1
ResetOutcome == [brake : {"ok", "raise"}, posi : {"ok", "raise"}, ack : {0, 1}]

\* a clearing that leaves the accumulated reward standing; C11 tells it from
\* the code's
ClearEpisodeKeepTotal(s) ==
    [s EXCEPT !.episodeReward = 0,
              !.flag = FALSE,
              !.episode_steps = 0,
              !.state7 = NdArray(Zero7),
              !.parking_brake_released = FALSE]

\* the first lines of reset: the per-episode state is cleared
ClearEpisode(s) ==
    [s EXCEPT !.episodeReward = 0,
              !.totalReward = 0,
              !.flag = FALSE,
              !.episode_steps = 0,
              !.state7 = NdArray(Zero7),
              !.parking_brake_released = FALSE]

\* a collision reset that clears the coordinator's flag and leaves the detector
\* alone; C13 tells it from the code's
ResetCollisionFlagOnly(s) ==
    IF s.isCollision
    THEN [s EXCEPT !.isCollision = FALSE]
    ELSE s

\* the collision reset of reset, with the detector's reset_collision_state
ResetCollision(s) ==
    IF s.isCollision
    THEN [s EXCEPT !.isCollision = FALSE,
                   !.aircraft_colliding = FALSE,
                   !.t.nDetectorReset = @ + 1]
    ELSE s

\* a brake release that is skipped once the coordinator has seen a collision;
\* C12 tells it from the code's
ParkingBrakeSkipped(s, r) ==
    IF ~s.parking_brake_released /\ s.t.nDetectorReset = 0
    THEN [s EXCEPT !.t.nBrake = @ + 1,
                   !.parking_brake_released = (r.brake = "ok")]
    ELSE s

\* the parking brake release of reset: the call of client.parkingBrakeRelease
\* and the flag it sets when the call returns
ParkingBrake(s, r) ==
    IF ~s.parking_brake_released
    THEN [s EXCEPT !.t.nBrake = @ + 1,
                   !.parking_brake_released = (r.brake = "ok")]
    ELSE s

\* GlobalEnv.reset: [s: the state after, raised, ret: <<observation, info>>]
Reset(s0, r) ==
    LET s1 == ClearEpisode(s0)
        s2 == ResetCollision(s1)
        s3 == ParkingBrake(s2, r)
        call == resetPOSI(r.posi, r.ack)
        s4 == [s3 EXCEPT !.t.nResetPOSI = @ + 1, !.t.rp = call]
    IN  IF call.raised
        THEN [s |-> s4, raised |-> TRUE, ret |-> <<>>]
        ELSE [s |-> s4, raised |-> FALSE,
              ret |-> <<s4.state7.val, <<s4.episode_steps, s4.timeout_incidents>> >>]

-----------------------------------------------------------------------------
(* GlobalEnv.step *)

\* the actions handed to step: a 4-vector with throttle 0 or 1, or a value
\* float(actions[i]) raises on
Actions == {[valid |-> TRUE, throttle |-> 1], [valid |-> FALSE, throttle |-> 0]}

\* the lines of step before the retry loop
StepPrelude(s) ==
    [s EXCEPT !.flag = FALSE,
              !.episodeReward = 0,
              !.episode_steps = @ + 1]

\* an attempt that raised: the except clause has caught it
Raised(s) == [s |-> s, done |-> FALSE, ret |-> <<>>]

\* an attempt that returned ret
Returned(s, ret) == [s |-> s, done |-> TRUE, ret |-> ret]

\* a length validation that accepts a reply of the right length without caching
\* it; C2 tells it from the code's
ValidateObservationNoStore(s, obs) ==
    IF Len(obs) = expected_length
    THEN [s |-> s, raised |-> FALSE, final |-> obs]
    ELSE [s |-> [s EXCEPT !.t.mismatch = "substituted"],
          raised |-> FALSE, final |-> s.state7.val]

\* the length validation of the reply obs: [s, raised, final], final being
\* finalObservationArr after it
ValidateObservation(s, obs) ==
    IF Len(obs) = expected_length
    THEN [s |-> [s EXCEPT !.state7 = List(obs)], raised |-> FALSE, final |-> obs]
    ELSE LET b == Truthy(s.state7)
         IN  IF b = "ValueError"
             THEN [s |-> [s EXCEPT !.t.mismatch = "raised"],
                   raised |-> TRUE, final |-> <<>>]
             ELSE IF b = "true"
             THEN [s |-> [s EXCEPT !.t.mismatch = "substituted"],
                   raised |-> FALSE, final |-> s.state7.val]
             ELSE [s |-> [s EXCEPT !.state7 = List(Zero7), !.t.mismatch = "zeroed"],
                   raised |-> FALSE, final |-> Zero7]

\* terminated of a completed attempt
Terminated(s) == s.flag \/ s.isCollision

\* the end of an attempt, from the reward bookkeeping to the return
FinishAttempt(s0, reward) ==
    LET s1 == [s0 EXCEPT !.episodeReward = reward,
                         !.totalReward = @ + reward]
        budget == s1.episode_steps >= MaxEpisodeSteps
        s2 == IF budget
              THEN [s1 EXCEPT !.flag = TRUE, !.t.budgetReached = TRUE]
              ELSE s1
        s3 == IF s2.flag
              THEN [s2 EXCEPT !.episodes_completed = @ + 1, !.totalReward = 0]
              ELSE s2
        ret_reward == IF s2.flag THEN s2.totalReward ELSE s2.episodeReward
    IN  Returned(s3, <<s3.state7.val, ret_reward, Terminated(s3), FALSE, <<>> >>)

\* the crash check, for each thing isCrash and the reset it triggers may do
CrashCheck(s0, reward) ==
    \* isCrash returns 0, or raises and the bare except passes
    {FinishAttempt(s0, reward)}
    \cup
    \* isCrash returns 1
    { LET s1 == [s0 EXCEPT !.t.crashReported = TRUE,
                           !.flag = TRUE,
                           !.episodes_completed = @ + 1,
                           !.totalReward = @ - crash_penalty,
                           !.t.resetCalled = TRUE]
          R == Reset(s1, r)
      IN  IF R.raised
          THEN \* the bare except swallows the exception of reset
               FinishAttempt([R.s EXCEPT !.t.resetRaised = TRUE], reward)
          ELSE Returned(R.s, <<R.ret[1], 0, TRUE, FALSE, R.ret[2]>>)
      : r \in ResetOutcome }

\* the collision poll; msg is the contact message the detector's callback
\* thread delivered since the last poll (the empty set: none)
CollisionPoll(s0, reward, msg) ==
    LET s1 == [s0 EXCEPT !.aircraft_colliding = fuselage_contact_callback(@, msg)]
        collision_status == s1.aircraft_colliding
        s2 == IF collision_status
              THEN [s1 EXCEPT !.isCollision = TRUE, !.t.collisionPolled = TRUE]
              ELSE s1
    IN  CrashCheck(s2, reward)

\* the contact messages delivered between the start of a step and its collision
\* poll.  Nothing in step reads the detector before that poll, so a message
\* delivered there acts as one delivered before the step (ContactCallback).
StepMsgs == {{}}

\* one iteration of the retry loop: the set of its possible results
Attempt(s0, act) ==
    LET s1 == [s0 EXCEPT !.t.nAttempts = @ + 1, !.t.obsRead = <<>>,
                         !.t.mismatch = "none"]
    IN  IF ~act.valid
        THEN {Raised(s1)}
        ELSE LET s2 == [s1 EXCEPT !.t.nSendCTRL = @ + 1]
                 s3 == [s2 EXCEPT !.t.nGetObs = @ + 1]
             IN  {Raised(s2)}            \* sendCTRL raises
                 \cup {Raised(s3)}       \* getObs raises
                 \cup UNION {
                     LET s4 == [s3 EXCEPT !.t.obsRead = obs]
                         v == ValidateObservation(s4, obs)
                     IN  IF v.raised
                         THEN {Raised(v.s)}
                         ELSE {Raised(v.s)}   \* get_latest_image raises
                              \cup UNION {CollisionPoll(v.s, Reward(v.final, act.throttle), msg)
                                          : msg \in StepMsgs}
                     : obs \in ObsSamples }

\* an exhausted return that hands out a zero vector in place of the cache; C5
\* tells it from the code's
ExhaustedReturnZeros(s) ==
    <<Zero7, s.episodeReward, s.flag, FALSE, <<>> >>

\* the return of the except clause on the last attempt
ExhaustedReturn(s) ==
    <<s.state7.val, s.episodeReward, s.flag, FALSE, <<>> >>

\* an except clause that re-raises on the last attempt; C1 tells it from the
\* code's
ExceptClauseReraise(s, k) ==
    IF k = max_retries - 1
    THEN [s |-> [s EXCEPT !.t.exhausted = TRUE], again |-> FALSE,
          raised |-> TRUE, ret |-> <<>>]
    ELSE [s |-> s, again |-> TRUE, raised |-> FALSE, ret |-> <<>>]

\* an except clause in which every failed attempt consumes a step of the
\* budget; C39 tells it from the code's
ExceptClauseCountsAttempt(s, k) ==
    IF k = max_retries - 1
    THEN [s |-> [s EXCEPT !.t.exhausted = TRUE, !.episode_steps = @ + 1],
          again |-> FALSE, raised |-> FALSE, ret |-> ExhaustedReturn(s)]
    ELSE [s |-> [s EXCEPT !.episode_steps = @ + 1], again |-> TRUE,
          raised |-> FALSE, ret |-> <<>>]

\* the except clause: s is the state the failed attempt k (0-based) left.
\* [s, raised, ret] when step ends here, or again: TRUE for the next attempt
ExceptClause(s, k) ==
    IF k = max_retries - 1
    THEN [s |-> [s EXCEPT !.t.exhausted = TRUE], again |-> FALSE,
          raised |-> FALSE, ret |-> ExhaustedReturn(s)]
    ELSE [s |-> s, again |-> TRUE, raised |-> FALSE, ret |-> <<>>]

\* the retry loop from attempt k (0-based) on: the set of results of step,
\* each [s, raised, ret]
RECURSIVE RetryLoop(_, _, _)
RetryLoop(s, act, k) ==
    UNION { IF a.done
            THEN {[s |-> a.s, raised |-> FALSE, ret |-> a.ret]}
            ELSE LET e == ExceptClause(a.s, k)
                 IN  IF e.again
                     THEN RetryLoop(e.s, act, k + 1)
                     ELSE {[s |-> e.s, raised |-> e.raised, ret |-> e.ret]}
            : a \in Attempt(s, act) }

\* GlobalEnv.step(actions): the set of its possible results
StepResults(s, act) == RetryLoop(StepPrelude(s), act, 0)

-----------------------------------------------------------------------------
(* The state machine *)

\* the record kept of a call: which call, whether it raised to its caller, what
\* it returned, what it did
Call(op, raised, ret, s) ==
    [op |-> op, raised |-> raised, ret |-> ret, t |-> s.t]

\* ControlParameters as parameters.getParameters() hands it out: cleared, the
\* cached observation a list of seven zeros
getParameters ==
    [flag |-> FALSE, isCollision |-> FALSE, episodeReward |-> 0, totalReward |-> 0,
     episodeStep |-> 0, state7 |-> List(Zero7)]

\* GlobalEnv.__init__ and AircraftCollisionDetector.__init__
Init ==
    /\ episode_steps = getParameters.episodeStep
    /\ parking_brake_released = FALSE
    /\ timeout_incidents = 0
    /\ episodes_completed = 0
    /\ flag = getParameters.flag
    /\ isCollision = getParameters.isCollision
    /\ episodeReward = getParameters.episodeReward
    /\ totalReward = getParameters.totalReward
    /\ state7 = getParameters.state7
    /\ aircraft_colliding = FALSE
    /\ last = [op |-> "init", raised |-> FALSE, ret |-> <<>>, t |-> NoTrace]
    /\ last_obs = NoObsCall
    /\ udp = NoTraffic
    /\ last_xpc = NoXpcCall
    /\ det = DetectorInit
    /\ iface = NoInterface

\* the program's variables take the values of the working state s
Commit(s) ==
    /\ episode_steps' = s.episode_steps
    /\ parking_brake_released' = s.parking_brake_released
    /\ timeout_incidents' = s.timeout_incidents
    /\ episodes_completed' = s.episodes_completed
    /\ flag' = s.flag
    /\ isCollision' = s.isCollision
    /\ episodeReward' = s.episodeReward
    /\ totalReward' = s.totalReward
    /\ state7' = s.state7
    /\ aircraft_colliding' = s.aircraft_colliding

\* a call of env.step(actions)
Step ==
    /\ episode_steps < StepCap
    /\ episodes_completed < MaxEpisodes
    /\ \E act \in Actions :
         \E r \in StepResults(Cur, act) :
            /\ Commit(r.s)
            /\ last' = Call("step", r.raised, r.ret, r.s)
            /\ UNCHANGED <<last_obs, udp, last_xpc, SideVars>>

\* a call of env.reset()
ResetCall ==
    \E r \in ResetOutcome :
        LET R == Reset(Cur, r)
        IN  /\ Commit(R.s)
            /\ last' = Call("reset", R.raised, R.ret, R.s)
            /\ UNCHANGED <<last_obs, udp, last_xpc, SideVars>>

\* the detector's callback thread delivers a contact message between two calls
ContactCallback ==
    \E msg \in Msgs :
        /\ aircraft_colliding' = fuselage_contact_callback(aircraft_colliding, msg)
        /\ UNCHANGED <<episode_steps, parking_brake_released, timeout_incidents,
                       episodes_completed, flag, isCollision, episodeReward,
                       totalReward, state7, last, last_obs, udp, last_xpc,
                       SideVars>>

Next == Step \/ ResetCall \/ ContactCallback

Spec == Init /\ [][Next]_vars

-----------------------------------------------------------------------------
(* The interfaces' getObs, called on its own *)

\* a call of XPlaneInterface.getObs(use_dref)
XPlaneGetObsCall ==
    \E initialized \in BOOLEAN, use_dref \in BOOLEAN,
       A \in DrefReplies, B \in PosiReplies :
        /\ last_obs' = [op |-> "XPlaneInterface.getObs", initialized |-> initialized,
                        use_dref |-> use_dref, A |-> A, B |-> B, J |-> NoneReply,
                        r |-> getObs(initialized, use_dref, A, B)]
        /\ UNCHANGED <<ProgVars, aircraft_colliding, udp, last_xpc, SideVars>>

\* a call of JSBSimInterface.getObs(use_dref)
JSBSimGetObsCall ==
    \E initialized \in BOOLEAN, use_dref \in BOOLEAN, J \in JsbReplies :
        /\ last_obs' = [op |-> "JSBSimInterface.getObs", initialized |-> initialized,
                        use_dref |-> use_dref, A |-> NoneReply, B |-> NoneReply, J |-> J,
                        r |-> JSBSimGetObs(initialized, J)]
        /\ UNCHANGED <<ProgVars, aircraft_colliding, udp, last_xpc, SideVars>>

\* a call of UnifiedFlightInterface.getObs(use_dref)
UnifiedGetObsCall ==
    \E engine \in Engines, use_dref \in BOOLEAN,
       A \in {NoneReply, DrefTimedOut, SeqOf(DrefRows(DrefValues))},
       B \in {NoneReply, SeqOf(PosiFields(PosiValues))},
       J \in {NoneReply, SeqOf(PosiFields(JsbValues))} :
        /\ last_obs' = [op |-> "UnifiedFlightInterface.getObs", initialized |-> TRUE,
                        use_dref |-> use_dref,
                        A |-> IF engine = "xplane" THEN A ELSE NoneReply,
                        B |-> IF engine = "xplane" THEN B ELSE NoneReply,
                        J |-> IF engine = "xplane" THEN NoneReply ELSE J,
                        r |-> UnifiedGetObs(engine, use_dref, A, B, J)]
        /\ UNCHANGED <<ProgVars, aircraft_colliding, udp, last_xpc, SideVars>>

ObsNext == XPlaneGetObsCall \/ JSBSimGetObsCall \/ UnifiedGetObsCall

ObsSpec == Init /\ [][ObsNext]_vars

-----------------------------------------------------------------------------
(* The calls on XPlaneConnect, on sampled arguments and sampled replies.     *)
(* Here readUDP may do anything a socket can: time out, fail, or return any  *)
(* of the sampled datagrams.                                                 *)

\* everything but the socket and the record of the calls on XPlaneConnect
EnvVars == <<ProgVars, aircraft_colliding, last_obs, SideVars>>

Prefix(q, k) == SubSeq(q, 1, k)

\* vectors of 7 values: an ordinary one; one whose first value is a double
\* that is no single; one whose fourth value is; a gear left unset by the
\* sentinel; a gear no signed byte holds
VectorSamples ==
    { <<47, -122, 99, 2, 1, 180, 3>>,
      <<single_exact + 1, -122, 99, 2, 1, 180, 3>>,
      <<47, -122, 99, single_exact + 1, 0, 180, 3>>,
      <<5, -6, 7, 8, sentinel, 9, 3>>,
      <<5, -6, 7, 8, 200, 9, 3>> }

\* the argument `values`: 0 to 8 values
ValuesSamples ==
    {Prefix(v, k) : v \in VectorSamples, k \in 0..7}
        \cup {v \o <<0>> : v \in VectorSamples}

AcSamples == {-1, 0, 20, 21}

\* a POSI message in the single-precision layout (34 bytes)
Posi34(values, ac) ==
    Pack4s("POSI") \o PackX \o PackB(ac) \o PackFloats(values)

\* a message under another tag
Retag(buf, tag) == Pack4s(tag) \o SubSeq(buf, 5, Len(buf))

\* the buffers sendPOSI and sendCTRL produce on the samples
PosiBuffers == {sendPOSI(v, 0).sent : v \in ValuesSamples} \ {<<>>}
CtrlBuffers == {sendCTRL(v, 0).sent : v \in ValuesSamples} \ {<<>>}

\* datagrams a getPOSI may receive: both layouts, a wrong tag, wrong lengths
PosiDatagrams ==
    PosiBuffers \cup {Posi34(v, 0) : v \in VectorSamples}
        \cup {Retag(b, "RESP") : b \in PosiBuffers}
        \cup {Retag(Posi34(v, 0), "CTRL") : v \in VectorSamples}
        \cup {Prefix(b, 45) : b \in PosiBuffers}
        \cup {b \o PackX : b \in PosiBuffers}
        \cup {<<>>, Pack4s("POSI") \o PackX}

\* datagrams a getCTRL may receive
CtrlDatagrams ==
    CtrlBuffers \cup {Retag(b, "POSI") : b \in CtrlBuffers}
        \cup {<<>>, Pack4s("CTRL") \o PackX}

\* the identifiers asked of getDREFs: 1 to MaxDrefs of them
DrefNames ==
    <<Dref("sim/a", 5), Dref("sim/bb", 6), Dref("sim/ccc", 7),
      Dref("sim/dddd", 8)>>
DrefLists == {Prefix(DrefNames, n) : n \in 1..MaxDrefs}

\* a row of a reply to GETD: the pair of the length it declares and the
\* singles that follow; the last sample declares more than follow
RowSamples ==
    { <<1, <<7>>>>, <<2, <<8, 9>>>>,
      <<0, <<>>>>, <<3, <<6>>>> }

RECURSIVE PackRows(_)
PackRows(rows) ==
    IF rows = <<>> THEN <<>>
    ELSE PackB(Head(rows)[1]) \o PackFloats(Head(rows)[2])
         \o PackRows(Tail(rows))

\* a reply to GETD: the tag, the count byte and the rows
RespBuffer(count, rows) ==
    Pack4s("RESP") \o PackX \o PackB(count) \o PackRows(rows)

RowLists == UNION {[1..n -> RowSamples] : n \in 0..MaxDrefs}

\* datagrams a getDREFs may receive: every count byte with every list of
\* rows, and replies shorter than the header
DrefDatagrams ==
    {RespBuffer(c, rows) : c \in 0..(MaxDrefs + 1), rows \in RowLists}
        \cup {<<>>, Pack4s("RESP") \o PackX}

\* datagrams a readDATA may receive
DataRowSamples == {<<3, 1, 2, 3, 4, 5, 6, 7, 8>>, <<20, 9, 8, 7, 6, 5, 4, 3, 2>>}
DataDatagrams ==
    {Pack4s("DATA") \o PackX \o PackFloats(r) : r \in DataRowSamples}
        \cup {Pack4s("DATA") \o PackX \o PackFloats(r) \o PackFloats(q) \o PackX :
                 r \in DataRowSamples, q \in DataRowSamples}
        \cup {<<>>, Pack4s("DATA") \o PackX}

Receives(datagrams) == {Timeout, SocketError} \cup {Datagram(b) : b \in datagrams}

\* a call that uses no reply
Command(op, values, ac, r) ==
    /\ last_xpc' = XpcCall(op, values, ac, <<>>, NoReceive, r, 0, NoDatagram, 0)
    /\ UNCHANGED <<EnvVars, udp>>

\* a call that sends a request and reads the reply
Query(op, ac, drefs, recv, r) ==
    /\ last_xpc' = XpcCall(op, <<>>, ac, drefs, recv, r, 0, NoDatagram, 0)
    /\ UNCHANGED <<EnvVars, udp>>

SendPOSICall ==
    \E values \in ValuesSamples, ac \in AcSamples :
        Command("sendPOSI", values, ac, sendPOSI(values, ac))

SendCTRLCall ==
    \E values \in ValuesSamples, ac \in AcSamples :
        Command("sendCTRL", values, ac, sendCTRL(values, ac))

GetPOSICall ==
    \E recv \in Receives(PosiDatagrams) :
        Query("getPOSI", 0, <<>>, recv, getPOSI(0, recv))

GetCTRLCall ==
    \E recv \in Receives(CtrlDatagrams) :
        Query("getCTRL", 0, <<>>, recv, getCTRL(0, recv))

GetDREFsCall ==
    \E drefs \in DrefLists, recv \in Receives(DrefDatagrams) :
        Query("getDREFs", 0, drefs, recv, getDREFs(drefs, recv))

ReadDATACall ==
    \E recv \in Receives(DataDatagrams) :
        Query("readDATA", 0, <<>>, recv, readDATA(recv))

SetCONNCall ==
    \E port \in {-1, 0, 49009, 65536} :
        Command("setCONN", <<port>>, 0, setCONN(port))

PauseSimCall ==
    \E pause \in -1..3 : Command("pauseSim", <<pause>>, 0, pauseSim(pause))

SendDATACall ==
    \E data \in {<<>>} \cup {<<r>> : r \in DataRowSamples}
                  \cup {<<r, Prefix(r, 8)>> : r \in DataRowSamples} :
        Command("sendDATA", data, 0, sendDATA(data))

SendDREFsCall ==
    \E drefs \in DrefLists, values \in {<<<<1>>>>, <<<<1>>, <<2, 3>>>>, <<>>} :
        Command("sendDREFs", values, 0, sendDREFs(drefs, values))

SendTEXTCall ==
    \E msgLen \in 0..2, y \in {-2, -1, 10} :
        Command("sendTEXT", <<msgLen, -1, y>>, 0, sendTEXT(msgLen, -1, y))

SendVIEWCall ==
    \E view \in {72, 73, 85, 86} : Command("sendVIEW", <<view>>, 0, sendVIEW(view))

\* waypoint lists by their number of floats: none, one point, a broken
\* point, 85, 86, 255 and 256 points
PointsSamples ==
    {<<>>, <<1, 2, 3>>, <<1, 2>>} \cup
    {[i \in 1..(3 * n) |-> 1] : n \in {85, 86, 255, 256}}

SendWYPTCall ==
    \E op \in 0..4, points \in PointsSamples :
        Command("sendWYPT", <<op>> \o points, 0, sendWYPT(op, points))

XpcNext ==
    \/ SendPOSICall \/ SendCTRLCall \/ GetPOSICall \/ GetCTRLCall
    \/ GetDREFsCall \/ ReadDATACall \/ SetCONNCall \/ PauseSimCall
    \/ SendDATACall \/ SendDREFsCall \/ SendTEXTCall \/ SendVIEWCall
    \/ SendWYPTCall

XpcSpec == Init /\ [][XpcNext]_vars

-----------------------------------------------------------------------------
(* The calls on XPlaneConnect against a simulator that answers every         *)
(* request, in time or late.  The socket hands readUDP the datagram that     *)
(* arrived first.                                                            *)

\* the position and the datarefs the simulator reports after snap commands
SimPosition(snap) == <<47 + snap, -122, 99, 2, 1, 180, 1>>
PosiAnswer(snap) == sendPOSI(SimPosition(snap), 0).sent
DrefAnswer(drefs, snap) ==
    RespBuffer(Len(drefs), [i \in 1..Len(drefs) |->
                              <<1, <<300 + snap>>>>])

\* a query on the socket: the request goes out and the simulator's answer d
\* sets off.  readUDP returns the datagram that arrived first; with none
\* waiting, the answer arrives in time, or readUDP times out and the answer
\* arrives later.  Each outcome: the datagram consumed, what readUDP did,
\* and the socket afterwards.
SocketOutcomes(d) ==
    IF udp.sock # <<>>
    THEN {[got |-> Head(udp.sock), recv |-> Datagram(Head(udp.sock).buf),
           next |-> [udp EXCEPT !.sock = Tail(@), !.late = @ \cup {d},
                                !.nreq = d.req]]}
    ELSE {[got |-> d, recv |-> Datagram(d.buf),
           next |-> [udp EXCEPT !.nreq = d.req]],
          [got |-> NoDatagram, recv |-> Timeout,
           next |-> [udp EXCEPT !.late = @ \cup {d}, !.nreq = d.req]]}

GetPOSIOnSocket ==
    /\ udp.nreq < MaxRequests
    /\ LET d == [req |-> udp.nreq + 1, snap |-> udp.nctrl,
                 buf |-> PosiAnswer(udp.nctrl)]
       IN  \E o \in SocketOutcomes(d) :
               /\ udp' = o.next
               /\ last_xpc' = XpcCall("getPOSI", <<>>, 0, <<>>, o.recv,
                                      getPOSI(0, o.recv), d.req, o.got,
                                      udp.nctrl)
    /\ UNCHANGED EnvVars

GetDREFsOnSocket ==
    /\ udp.nreq < MaxRequests
    /\ \E drefs \in DrefLists :
          LET d == [req |-> udp.nreq + 1, snap |-> udp.nctrl,
                    buf |-> DrefAnswer(drefs, udp.nctrl)]
          IN  \E o \in SocketOutcomes(d) :
                  /\ udp' = o.next
                  /\ last_xpc' = XpcCall("getDREFs", <<>>, 0, drefs, o.recv,
                                         getDREFs(drefs, o.recv), d.req, o.got,
                                         udp.nctrl)
    /\ UNCHANGED EnvVars

\* sendCTRL on the socket: the simulator receives one more command
SendCTRLOnSocket ==
    /\ udp.nctrl < MaxCommands
    /\ udp' = [udp EXCEPT !.nctrl = @ + 1]
    /\ last_xpc' = XpcCall("sendCTRL", <<0, 0, 0, 1>>, 0, <<>>, NoReceive,
                           sendCTRL(<<0, 0, 0, 1>>, 0), 0, NoDatagram, udp.nctrl)
    /\ UNCHANGED EnvVars

\* a late answer reaches the socket
DatagramArrives ==
    \E d \in udp.late :
        /\ udp' = [udp EXCEPT !.late = @ \ {d}, !.sock = Append(@, d)]
        /\ UNCHANGED <<EnvVars, last_xpc>>

SocketNext ==
    GetPOSIOnSocket \/ GetDREFsOnSocket \/ SendCTRLOnSocket \/ DatagramArrives

SocketSpec == Init /\ [][SocketNext]_vars

-----------------------------------------------------------------------------
(* The collision detector under its lock: the callback thread delivers      *)
(* contact messages while the environment's thread calls the other methods. *)
(* A method enters by taking the lock, makes its assignments one at a time  *)
(* and leaves by releasing the lock.                                        *)

\* everything but the detector
NonDetVars == <<ProgVars, aircraft_colliding, last_obs, udp, last_xpc, iface>>

\* the contact messages of the transport: any set of entities
ContactMsgs == SUBSET Entities

\* the methods that only read
Getters == {"is_colliding", "has_collision_occurred", "get_collision_entity",
            "get_collision_status"}

\* what a getter returns
GetterValue(op, d) ==
    CASE op = "is_colliding" -> <<IsColliding(d)>>
      [] op = "has_collision_occurred" -> <<IsColliding(d)>>
      [] op = "get_collision_entity" -> <<GetCollisionEntity(d)>>
      [] op = "get_collision_status" -> GetCollisionStatus(d)

\* `with self._lock:` thread t takes the free lock and starts one of the
\* runs of the method
Enter(t, op, arg, runs, struck, quiet) ==
    /\ det.lock = "free"
    /\ det.th[t].op = "idle"
    /\ \E run \in runs :
           det' = [det EXCEPT !.lock = t,
                              !.th[t] = [op |-> op, arg |-> arg, todo |-> run],
                              !.struck = struck, !.quiet = quiet]
    /\ UNCHANGED NonDetVars

ContactDelivered ==
    \E msg \in ContactMsgs :
        LET hit == EntitiesInContact(det.d, msg) # {}
        IN  Enter("callback", "_fuselage_contact_callback", msg,
                  FuselageContactCallback(det.d, msg),
                  IF hit THEN TRUE ELSE det.struck,
                  IF hit THEN FALSE ELSE det.quiet)

SetIgnoreGroundCall ==
    \E ignore \in BOOLEAN :
        Enter("caller", "set_ignore_ground", {ignore},
              SetIgnoreGround(det.d, ignore), FALSE, det.quiet)

AddIgnoredEntityCall ==
    \E entity_name \in Entities :
        Enter("caller", "add_ignored_entity", {entity_name},
              AddIgnoredEntity(det.d, entity_name), FALSE, det.quiet)

RemoveIgnoredEntityCall ==
    \E entity_name \in Entities :
        Enter("caller", "remove_ignored_entity", {entity_name},
              RemoveIgnoredEntity(det.d, entity_name), FALSE, det.quiet)

ClearIgnoredEntitiesCall ==
    Enter("caller", "clear_ignored_entities", {},
          ClearIgnoredEntities(det.d), FALSE, det.quiet)

AddGroundEntityCall ==
    Enter("caller", "add_ground_entity", {"building"},
          AddGroundEntity(det.d, "building"), FALSE, det.quiet)

ResetCollisionStateCall ==
    Enter("caller", "reset_collision_state", {},
          ResetCollisionState(det.d), FALSE, TRUE)

GetterCall ==
    \E op \in Getters :
        Enter("caller", op, {}, {<<>>}, det.struck, det.quiet)

\* the thread that holds the lock makes the next assignment of its run
Statement ==
    \E t \in Threads :
        /\ det.lock = t
        /\ det.th[t].todo # <<>>
        /\ det' = [det EXCEPT !.d = Head(det.th[t].todo),
                              !.th[t].todo = Tail(det.th[t].todo)]
        /\ UNCHANGED NonDetVars

\* the end of the with block: a getter returns what it read, the lock is
\* released
Leave ==
    \E t \in Threads :
        /\ det.lock = t
        /\ det.th[t].todo = <<>>
        /\ det' = [det EXCEPT
                     !.lock = "free",
                     !.th[t] = Idle,
                     !.ret = IF det.th[t].op \in Getters
                             THEN [op |-> det.th[t].op,
                                   val |-> GetterValue(det.th[t].op, det.d),
                                   struck |-> det.struck, quiet |-> det.quiet]
                             ELSE @]
        /\ UNCHANGED NonDetVars

DetectorNext ==
    \/ ContactDelivered \/ SetIgnoreGroundCall \/ AddIgnoredEntityCall
    \/ RemoveIgnoredEntityCall \/ ClearIgnoredEntitiesCall
    \/ AddGroundEntityCall \/ ResetCollisionStateCall \/ GetterCall
    \/ Statement \/ Leave

DetectorSpec == Init /\ [][DetectorNext]_vars

-----------------------------------------------------------------------------
(* The flight interface: a caller constructs interfaces, sends controls and *)
(* closes at any layer.                                                      *)

\* everything but the interface
NonIfaceVars == <<ProgVars, aircraft_colliding, last_obs, udp, last_xpc, det>>

\* the selectors handed to UnifiedFlightInterface
EngineSamples ==
    {JSBSIM, XPLANE, Selector("Enum", "gazebo"), Selector("str", "xplane"),
     NoSelector}

\* the engine types handed to create_flight_interface
EngineTypeSamples ==
    {Selector("str", "jsbsim"), Selector("str", "XPlane"),
     Selector("str", "gazebo"), NoSelector}

\* the ways the construction of an engine's client can go
OutcomesOf(engine) ==
    IF engine = "jsbsim" THEN ClientOutcomes ELSE {"ok", "client_raises"}

\* the engine a selector names, "none" for an unsupported one
EngineOf(sel) ==
    IF sel[1] \in {"PhysicsEngine", "str"} /\ Lower(sel[2]) \in {"jsbsim", "xplane"}
    THEN Lower(sel[2]) ELSE "none"

\* XPlaneInterface() or JSBSimInterface()
ConstructVariant ==
    \E engine \in {"jsbsim", "xplane"} :
        \E outcome \in OutcomesOf(engine) :
            /\ iface' = [obj |-> IF engine = "jsbsim"
                                 THEN JSBSimInterfaceInit(outcome)
                                 ELSE XPlaneInterfaceInit(outcome),
                         last |-> InterfaceCall("variant", Selector("str", engine),
                                                <<>>, outcome, iface.obj, "none",
                                                PyNone, <<>>)]
            /\ UNCHANGED NonIfaceVars

\* the caller's reference after a constructor call: the new object, or the
\* old one when the constructor raised
Assigned(r) == IF r.raised = "none" THEN r.obj ELSE iface.obj

\* UnifiedFlightInterface(physics_engine)
ConstructUnified ==
    \E physics_engine \in EngineSamples :
        \E outcome \in OutcomesOf(EngineOf(physics_engine)) :
            LET r == UnifiedFlightInterfaceInit(physics_engine, outcome)
            IN  /\ iface' = [obj |-> Assigned(r),
                             last |-> InterfaceCall("UnifiedFlightInterface",
                                                    physics_engine, <<>>, outcome,
                                                    iface.obj, r.raised, PyNone, <<>>)]
                /\ UNCHANGED NonIfaceVars

\* create_flight_interface(engine_type)
CreateFlightInterface ==
    \E engine_type \in EngineTypeSamples :
        \E outcome \in OutcomesOf(EngineOf(engine_type)) :
            LET r == create_flight_interface(engine_type, outcome)
            IN  /\ iface' = [obj |-> Assigned(r),
                             last |-> InterfaceCall("create_flight_interface",
                                                    engine_type, <<>>, outcome,
                                                    iface.obj, r.raised, PyNone, <<>>)]
                /\ UNCHANGED NonIfaceVars

\* sendCTRL(actions) on the object the caller holds
SendCTRLOnInterface ==
    /\ iface.obj.cls # "none"
    /\ \E actions \in ValuesSamples, outcome \in SendActionOutcomes :
           /\ iface.obj.engine = "xplane" => outcome # "False"
           /\ LET r == UnifiedSendCTRL(iface.obj, actions, outcome)
              IN  iface' = [iface EXCEPT
                              !.last = InterfaceCall("sendCTRL", NoSelector, actions,
                                                     outcome, iface.obj, "none",
                                                     r.ret, r.sent)]
    /\ UNCHANGED NonIfaceVars

\* close() at one of the layers of the object the caller holds
CloseCall ==
    \E layer \in CloseLayers, fails \in BOOLEAN :
        /\ HasLayer(layer, iface.obj)
        /\ LET r == CloseOf(layer, iface.obj, fails)
           IN  iface' = [obj |-> r.obj,
                         last |-> InterfaceCall(layer, NoSelector, <<>>,
                                                IF fails THEN "close_raises" ELSE "ok",
                                                iface.obj,
                                                IF r.raised THEN "OSError" ELSE "none",
                                                PyNone, <<>>)]
        /\ UNCHANGED NonIfaceVars

InterfaceNext ==
    \/ ConstructVariant \/ ConstructUnified \/ CreateFlightInterface
    \/ SendCTRLOnInterface \/ CloseCall

InterfaceSpec == Init /\ [][InterfaceNext]_vars

-----------------------------------------------------------------------------
(* Reading a transition *)

\* this transition is a call of step: every call of step changes episode_steps
\* or episodes_completed, and last then is the record of that call
StepTaken == last'.op = "step" /\ ProgVars' # ProgVars

\* this transition is a call of reset that changed something
ResetTaken == last'.op = "reset" /\ ProgVars' # ProgVars

\* the last call was a step; its return value and what it did
StepDone == last.op = "step"
RetObs == last.ret[1]
RetTerminated == last.ret[3]

-----------------------------------------------------------------------------
(* Claims *)

\* C1: step never raises to its caller and returns a 5-tuple (observation,
\* reward, terminated, truncated, info) after at most 3 sendCTRL calls and at
\* most 3 getObs calls, whatever the action and whatever the client does.
C1_StepNeverRaises ==
    StepDone =>
        /\ ~last.raised
        /\ Len(last.ret) = 5
        /\ Len(RetObs) = expected_length
        /\ RetTerminated \in BOOLEAN
        /\ last.ret[4] = FALSE
        /\ last.t.nAttempts <= max_retries
        /\ last.t.nSendCTRL <= max_retries
        /\ last.t.nGetObs <= max_retries

\* C1 witness: a step whose three attempts all failed, the client having been
\* called three times for sendCTRL and having raised in getObs at least once
C1_Witness ==
    /\ StepDone
    /\ last.t.exhausted
    /\ last.t.nSendCTRL = max_retries
    /\ last.t.nGetObs > 0
    /\ last.t.obsRead = <<>>

\* the third attempt of the last step completed after two failed ones
ThirdAttemptCompleted ==
    StepDone /\ last.t.nAttempts = 3 /\ ~last.t.exhausted

\* C2 as claimed: when attempts 1 and 2 fail and attempt 3 succeeds, step returns
\* the observation read on attempt 3, after at most 3 sendCTRL and 3 getObs calls.
C2_Original ==
    ThirdAttemptCompleted =>
        /\ RetObs = last.t.obsRead
        /\ last.t.nSendCTRL <= 3
        /\ last.t.nGetObs <= 3

\* C2 amended: when attempts 1 and 2 fail and attempt 3 succeeds with a reply of
\* length 7 and without isCrash reporting a crash, step returns the observation
\* read on attempt 3, after at most 3 sendCTRL and 3 getObs calls.
C2_ThirdAttemptResult ==
    (ThirdAttemptCompleted
        /\ Len(last.t.obsRead) = expected_length
        /\ ~last.t.crashReported) =>
        /\ RetObs = last.t.obsRead
        /\ last.t.nSendCTRL <= 3
        /\ last.t.nGetObs <= 3

\* C2 witness: such a third attempt, returning a reply that differs from the
\* zero vector
C2_Witness ==
    /\ ThirdAttemptCompleted
    /\ Len(last.t.obsRead) = expected_length
    /\ ~last.t.crashReported
    /\ RetObs = ObsAir

\* C3 as claimed: a step in which an attempt completes returns terminated=True
\* whenever isCrash reported a crash, or is_colliding() was true when polled, or
\* the step counter had reached max_episode_steps, also when the reset of the
\* crash path fails.
C3_TriggerTerminates ==
    (StepDone /\ ~last.t.exhausted
        /\ (last.t.crashReported \/ last.t.collisionPolled \/ last.t.budgetReached))
    => RetTerminated = TRUE

\* C4 as claimed: a step that returns terminated=True has set the terminal flag
\* (which step does exactly where it records crashReported or budgetReached)
\* and has incremented episodes_completed by exactly one.
C4_TerminationCounted ==
    [][(StepTaken /\ last'.ret[3] = TRUE) =>
          /\ (last'.t.crashReported \/ last'.t.budgetReached)
          /\ episodes_completed' = episodes_completed + 1]_vars

\* C5: when all 3 attempts fail, the observation returned is the cached
\* observation state7, which is the cache as it was before the step or a
\* length-7 reply accepted during the step: the step did not put zeros there.
C5_ExhaustedReturnsCache ==
    [][(StepTaken /\ last'.t.exhausted) =>
          /\ last'.ret[1] = state7'.val
          /\ Len(state7'.val) = expected_length
          /\ \/ state7' = state7
             \/ /\ state7' = List(last'.ret[1])
                /\ last'.ret[1] \in ObsSamples
          /\ (state7'.val = Zero7 => state7.val = Zero7)]_vars

\* C5 witness: a fully failed step returned a cached observation that is not
\* the zero vector
C5_Witness ==
    StepDone /\ last.t.exhausted /\ RetObs = ObsAir /\ state7 = List(ObsAir)

\* C6 as claimed: when all 3 attempts fail, the reward returned is the reward
\* state as it stood before the step (the per-step or the accumulated reward),
\* and the step leaves that state unchanged.
C6_ExhaustedKeepsReward ==
    [][(StepTaken /\ last'.t.exhausted) =>
          /\ (last'.ret[2] = episodeReward \/ last'.ret[2] = totalReward)
          /\ episodeReward' = episodeReward
          /\ totalReward' = totalReward]_vars

\* C7 as claimed: a step whose 3 attempts all fail leaves ControlParameters.flag
\* as it was before the step and returns that flag as terminated.
C7_ExhaustedKeepsFlag ==
    [][(StepTaken /\ last'.t.exhausted) =>
          /\ flag' = flag
          /\ last'.ret[3] = flag]_vars

\* C8 as claimed: an attempt in which getObs returns a reply of the wrong length
\* substitutes the cached observation without raising, whatever the cache
\* holds; when that is the first attempt and no reset follows in the step, the
\* cache is unchanged and, if the attempt completes, it is what step returns.
C8_MismatchSubstitutes ==
    [][(StepTaken /\ last'.t.mismatch # "none") =>
          /\ last'.t.mismatch = "substituted"
          /\ (last'.t.nAttempts = 1 /\ ~last'.t.resetCalled) =>
                /\ state7' = state7
                /\ (~last'.t.exhausted => last'.ret[1] = state7.val)]_vars

\* C9 as claimed: a reset during which the acknowledgement is never seen returns
\* normally, with timeout_incidents increased by exactly one.
C9_ResetTimeoutCounted ==
    [][(ResetTaken /\ ~last'.t.rp.acked) =>
          /\ ~last'.raised
          /\ timeout_incidents' = timeout_incidents + 1
          /\ last'.ret[2][2] = timeout_incidents + 1]_vars

\* C10 as claimed: resetPOSI does not return before the acknowledgement equalled
\* the expected value or the polling window (at most 20 polls) expired.
C10_ResetWaitsForAck ==
    (last.t.nResetPOSI > 0 /\ ~last.t.rp.raised) =>
        /\ (last.t.rp.acked \/ last.t.rp.expired)
        /\ last.t.rp.polls <= timeout \div poll_interval

\* the last call ran reset to its return: a call of reset that returned, or a
\* step whose crash path called reset and returned what reset returned
ResetReturned ==
    \/ last.op = "reset" /\ ~last.raised
    \/ StepDone /\ last.t.resetCalled /\ ~last.t.resetRaised

\* C11: after reset returns, whatever the state before, episode_steps is 0, the
\* termination flag is False, the per-step and the accumulated reward are 0, the
\* cached observation is the all-zero 7-vector and so is the observation
\* returned.
C11_ResetClears ==
    ResetReturned =>
        /\ episode_steps = 0
        /\ flag = FALSE
        /\ episodeReward = 0
        /\ totalReward = 0
        /\ state7.val = Zero7
        /\ Len(state7.val) = expected_length
        /\ RetObs = Zero7

\* C11 witness: the crash path's reset returned, in an attempt that followed a
\* failed one, the crash penalty charged and the last episode counted
C11_Witness ==
    /\ StepDone /\ last.t.resetCalled /\ ~last.t.resetRaised
    /\ last.t.nAttempts > 1
    /\ episodes_completed = MaxEpisodes
    /\ RetObs = Zero7

\* C12: each call of reset issues the parking-brake release exactly once: a
\* call of reset has made one release call, and a step has made one if its
\* crash path called reset and none otherwise.
C12_BrakeOncePerReset ==
    /\ last.op = "reset" => last.t.nBrake = 1
    /\ StepDone => last.t.nBrake = (IF last.t.resetCalled THEN 1 ELSE 0)
    /\ last.t.nResetPOSI = last.t.nBrake

\* C12 witness: a reset that also reset the detector issued the release once,
\* and the release succeeded
C12_Witness ==
    /\ last.op = "reset"
    /\ last.t.nBrake = 1
    /\ parking_brake_released
    /\ last.t.nDetectorReset = 1

\* C13: a reset that starts with the coordinator's collision flag set (by a
\* step that saw is_colliding() true) calls reset_collision_state once and ends
\* with the collision flag and the detector's flag both False.
C13_ResetClearsCollision ==
    [][/\ (ResetTaken /\ isCollision) =>
            /\ isCollision' = FALSE
            /\ aircraft_colliding' = FALSE
            /\ last'.t.nDetectorReset = 1
       /\ (StepTaken /\ last'.t.resetCalled
              /\ (isCollision \/ last'.t.collisionPolled)) =>
            /\ isCollision' = FALSE
            /\ aircraft_colliding' = FALSE
            /\ last'.t.nDetectorReset = 1]_vars

\* C13 witness: a step polled a collision and then ran the crash path's reset,
\* which reset the detector
C13_Witness ==
    /\ StepDone /\ last.t.resetCalled /\ last.t.collisionPolled
    /\ last.t.nDetectorReset = 1
    /\ ~isCollision /\ ~aircraft_colliding

-----------------------------------------------------------------------------
(* Claims about getObs *)

\* the last call of getObs was XPlaneInterface.getObs
XPlaneObsDone == last_obs.op = "XPlaneInterface.getObs"

\* the rows of A that carry a number
ValidRows(A) ==
    {i \in 1..Len(A.val) : RowValid(A, i) /\ FloatOk(A.val[i].val[1])}

\* A replied and has all 7 rows valid
DrefValid(A) ==
    A.kind = "seq" /\ Len(A.val) = dref_rows /\ Cardinality(ValidRows(A)) = dref_rows

\* B replied with at least 6 fields, each a number
PosiValid(B) == B.kind = "seq" /\ PosiReadable(B)

\* altitude, pitch, roll, heading, latitude, longitude of a position in the
\* layout of getPOSI: latitude, longitude, altitude, pitch, roll, heading, gear
PosiByLayout(B) ==
    <<B.val[3].val, B.val[4].val, B.val[5].val, B.val[6].val,
      B.val[1].val, B.val[2].val>>

\* altitude, pitch, roll, heading, latitude, longitude of a valid A in the
\* order of drefForPositions: longitude is row 4, latitude row 5 (0-based)
DrefByLayout(A) ==
    <<A.val[1].val[1].val, A.val[2].val[1].val, A.val[3].val[1].val,
      A.val[4].val[1].val, A.val[6].val[1].val, A.val[5].val[1].val>>

\* C14 as claimed: when A is None or delivers fewer than 7 valid rows (a
\* timed-out, empty or short reply) and B delivers at least 6 fields, the
\* observation is B's altitude, pitch, roll, heading, latitude and longitude
\* with airspeed 0.
C14_FusionFallback ==
    (XPlaneObsDone /\ last_obs.initialized
        /\ last_obs.A.kind # "raise"
        /\ Cardinality(ValidRows(last_obs.A)) < dref_rows
        /\ PosiValid(last_obs.B))
    => last_obs.r.obs = PosiByLayout(last_obs.B) \o <<0>>

\* C15 as claimed: in every observation getObs builds from a source, element 4
\* is that source's latitude and element 5 its longitude, on the DREF path and
\* on the position paths alike.
C15_LatLonSlots ==
    (XPlaneObsDone /\ last_obs.initialized) =>
        /\ last_obs.r.path \in {"posi_only", "posi"} =>
              /\ last_obs.r.obs[5] = last_obs.B.val[1].val
              /\ last_obs.r.obs[6] = last_obs.B.val[2].val
        /\ last_obs.r.path = "dref" =>
              /\ last_obs.r.obs[5] = DrefField(last_obs.A, 6).v
              /\ last_obs.r.obs[6] = DrefField(last_obs.A, 5).v

\* A is unavailable: the call raised or timed out, or the reply is None, empty
\* or short
DrefDown(A) ==
    A.kind \in {"none", "raise"} \/ Len(A.val) < dref_rows \/ A = DrefTimedOut

\* B is unavailable: the call raised, or the reply is None or has fewer than 6
\* fields
PosiDown(B) == B.kind \in {"none", "raise"} \/ Len(B.val) < posi_fields

\* C16: when both sources are unavailable, getObs returns the all-zero
\* 7-vector and does not raise, for either value of use_dref.
C16_BothUnavailable ==
    (XPlaneObsDone /\ DrefDown(last_obs.A) /\ PosiDown(last_obs.B)) =>
        /\ ~last_obs.r.raised
        /\ last_obs.r.obs = Zero7

\* C16 witness: A timed out and B is None on an initialized interface asked
\* for the position source
C16_Witness ==
    /\ XPlaneObsDone /\ last_obs.initialized /\ ~last_obs.use_dref
    /\ last_obs.A = DrefTimedOut /\ last_obs.B = NoneReply
    /\ last_obs.r.obs = Zero7

\* C17 as claimed: with both sources valid, use_dref=True takes altitude,
\* pitch, roll, heading, latitude and longitude from A and use_dref=False
\* takes them from B; the airspeed is A's (not below 0) in both cases.
C17_PreferredSource ==
    (XPlaneObsDone /\ last_obs.initialized
        /\ DrefValid(last_obs.A) /\ PosiValid(last_obs.B))
    => last_obs.r.obs =
          (IF last_obs.use_dref THEN DrefByLayout(last_obs.A)
                                ELSE PosiByLayout(last_obs.B))
          \o <<Max(0, last_obs.A.val[7].val[1].val)>>

\* C18 as claimed: when a required field of the preferred source fails its
\* validation and the other source is valid, the six fields are the other
\* source's, for either preference.
C18_FieldFallback ==
    XPlaneObsDone /\ last_obs.initialized =>
        /\ (/\ last_obs.use_dref
            /\ last_obs.A.kind = "seq" /\ Len(last_obs.A.val) = dref_rows
            /\ ~(1..6 \subseteq ValidRows(last_obs.A))
            /\ PosiValid(last_obs.B))
           => SubSeq(last_obs.r.obs, 1, 6) = PosiByLayout(last_obs.B)
        /\ (/\ ~last_obs.use_dref
            /\ last_obs.B.kind = "seq" /\ ~PosiReadable(last_obs.B)
            /\ DrefValid(last_obs.A))
           => SubSeq(last_obs.r.obs, 1, 6) = DrefByLayout(last_obs.A)

\* C19: getObs of XPlaneInterface, of JSBSimInterface and of
\* UnifiedFlightInterface never raises and returns exactly 7 numbers, for every
\* combination of replies; on an uninitialised backend, after an exception and
\* with no source available they are all 0.
C19_ObsTotal ==
    last_obs.op # "none" =>
        /\ ~last_obs.r.raised
        /\ Len(last_obs.r.obs) = 7
        /\ \A i \in 1..7 : last_obs.r.obs[i] \in Int
        /\ (\/ ~last_obs.initialized
            \/ last_obs.r.path \in {"except", "both_unavailable", "insufficient"})
           => last_obs.r.obs = Zero7

\* C19 witness: the DREF branch raised on a field of A with B None, and the
\* NameError of the unbound longitude ended in the all-zero observation
C19_Witness ==
    /\ XPlaneObsDone /\ last_obs.initialized
    /\ last_obs.A.kind = "seq" /\ Len(last_obs.A.val) = dref_rows
    /\ last_obs.B = NoneReply
    /\ last_obs.r.path = "except"
    /\ last_obs.r.obs = Zero7

\* C20: the airspeed element of every observation XPlaneInterface.getObs
\* returns is at least 0, on every decision path.
C20_AirspeedNonNegative ==
    XPlaneObsDone => last_obs.r.obs[7] >= 0

\* C20 witness: A reports a negative airspeed and the DREF path returns 0
C20_Witness ==
    /\ XPlaneObsDone /\ last_obs.initialized
    /\ last_obs.A = SeqOf(DrefRows(DrefNegative))
    /\ last_obs.r.path = "dref"
    /\ last_obs.r.obs[7] = 0


-----------------------------------------------------------------------------
(* Claims about XPlaneConnect *)

XpcDone(op) == last_xpc.op = op
Received == last_xpc.recv.kind = "data"

\* the fields of a buffer after its first n bytes, each with its format
FieldsAfter(buf, n) ==
    SelectSeq(SubSeq(buf, n + 1, Len(buf)), LAMBDA c : c[1] # "~")

\* the rows of a reply to GETD that hold what they declare
SoundRows == {r \in RowSamples : r[1] = Len(r[2])}

\* C21: getDREFs called with N identifiers returns exactly N rows for every
\* reply: a well-formed reply of N rows yields its rows in order, and every
\* other reply (short, with a count byte other than N, or with a row that
\* overruns the buffer) yields N empty rows.
C21_GetDREFsRowCount ==
    (XpcDone("getDREFs") /\ Received) =>
        LET N == Len(last_xpc.drefs)
            buf == last_xpc.recv.buf
        IN  /\ last_xpc.ret.kind = "seq"
            /\ Len(last_xpc.ret.val) = N
            /\ \/ \E rows \in [1..N -> SoundRows] :
                     /\ buf = RespBuffer(N, rows)
                     /\ last_xpc.ret.val = [i \in 1..N |-> rows[i][2]]
               \/ last_xpc.ret = EmptyRows(last_xpc.drefs)

\* C22: every reply a query consumes answers the request of that same call,
\* and reports the simulator no earlier than the last sendCTRL before the
\* call.
C22_RepliesMatchRequests ==
    ((XpcDone("getPOSI") \/ XpcDone("getDREFs")) /\ Received) =>
        /\ last_xpc.got.req = last_xpc.req
        /\ last_xpc.got.snap >= last_xpc.ctrl

\* C23: when readUDP times out, getPOSI, getCTRL and readDATA return None and
\* getDREFs returns one empty row per identifier; none of them raises.
C23_TimeoutRecovered ==
    last_xpc.recv.kind = "timeout" =>
        /\ last_xpc.raised = "none"
        /\ last_xpc.op \in {"getPOSI", "getCTRL", "readDATA"} =>
              last_xpc.ret = NoneReply
        /\ XpcDone("getDREFs") =>
              last_xpc.ret = SeqOf([i \in 1..Len(last_xpc.drefs) |-> <<>>])

C23_Witness ==
    /\ XpcDone("getDREFs") /\ last_xpc.recv.kind = "timeout"
    /\ Len(last_xpc.drefs) = 2
    /\ last_xpc.ret = SeqOf(<<<<>>, <<>>>>)

\* C24: getPOSI decodes a 34-byte reply tagged POSI as its seven singles and
\* a 46-byte reply tagged POSI as its three doubles and four singles, 7
\* values each; a reply of another length or under another tag gives None;
\* no reply makes it raise.
C24_PosiByLength ==
    (XpcDone("getPOSI") /\ Received) =>
        LET buf == last_xpc.recv.buf
            fields == FieldsAfter(buf, 6)
        IN  /\ last_xpc.raised = "none"
            /\ IF Len(buf) \in {34, 46} /\ buf[1] = Field("s", "POSI")
               THEN /\ last_xpc.ret.kind = "seq"
                    /\ Len(last_xpc.ret.val) = 7
                    /\ Len(fields) = 7
                    /\ \A i \in 1..7 :
                          /\ fields[i][1] =
                                (IF Len(buf) = 46 /\ i <= 3 THEN "d" ELSE "f")
                          /\ last_xpc.ret.val[i] = fields[i][2]
               ELSE last_xpc.ret = NoneReply

C24_Witness ==
    /\ XpcDone("getPOSI") /\ Received
    /\ Len(last_xpc.recv.buf) = 46
    /\ last_xpc.ret = SeqOf(<<47, -122, 99, 2, 1, 180, 3>>)

\* C25: sendCTRL and sendPOSI given an aircraft index outside 0..20 or a
\* number of values outside 1..7 raise ValueError, hand no buffer to the
\* socket and leave the socket as it was.
C25_RejectedBeforeEncoding ==
    [][ (/\ last_xpc'.op \in {"sendCTRL", "sendPOSI"}
         /\ \/ last_xpc'.ac < 0 \/ last_xpc'.ac > 20
            \/ Len(last_xpc'.values) < 1 \/ Len(last_xpc'.values) > 7)
        => (/\ last_xpc'.raised = "ValueError"
            /\ last_xpc'.sent = <<>>
            /\ udp' = udp) ]_vars

C25_Witness ==
    /\ XpcDone("sendPOSI") /\ last_xpc.ac = 21 /\ Len(last_xpc.values) = 7
    /\ last_xpc.raised = "ValueError"

\* the value slot i (1-based) of a message holds on the wire, by the format
\* of the slot
OnWire(fmt, v) == IF fmt = "f" THEN Single(v) ELSE v

\* C26: sendPOSI given k values, 1 <= k <= 7, encodes 7 slots after the
\* 6-byte header: three doubles then four singles, 46 bytes in all; the first
\* k carry the given values in order, the others -998.
C26_PosiSevenSlots ==
    (XpcDone("sendPOSI") /\ last_xpc.raised = "none") =>
        LET fields == FieldsAfter(last_xpc.sent, 6)
            k == Len(last_xpc.values)
        IN  /\ Len(last_xpc.sent) = 46
            /\ Len(fields) = 7
            /\ \A i \in 1..7 :
                  /\ fields[i][1] = (IF i <= 3 THEN "d" ELSE "f")
                  /\ fields[i][2] =
                        (IF i <= k THEN OnWire(fields[i][1], last_xpc.values[i])
                         ELSE -998)

C26_Witness ==
    /\ XpcDone("sendPOSI") /\ last_xpc.raised = "none"
    /\ last_xpc.values = <<47, -122, 99>>
    /\ FieldsAfter(last_xpc.sent, 6)[4][2] = -998
    /\ FieldsAfter(last_xpc.sent, 6)[7][2] = -998

\* the value of slot i (0-based) of a CTRL buffer
CtrlSlotOnWire(buf, i) ==
    IF i < 4 THEN FloatAt(buf, 5 + 4 * i)
    ELSE IF i = 4 THEN SignedByteAt(buf, 21)
    ELSE FloatAt(buf, 22)

\* C27 as stated: sendCTRL given k < 6 values carries -998 in each of the
\* slots k..5.
C27_Original ==
    (XpcDone("sendCTRL") /\ last_xpc.raised = "none"
        /\ Len(last_xpc.values) < 6) =>
        \A i \in Len(last_xpc.values)..5 :
            CtrlSlotOnWire(last_xpc.sent, i) = -998

\* C27: sendCTRL given k < 6 values carries -998 in each unset single slot
\* (those of k..5 other than 4) and -1 in the gear slot 4, a signed byte,
\* when the gear is unset.
C27_UnsetSlots ==
    (XpcDone("sendCTRL") /\ last_xpc.raised = "none"
        /\ Len(last_xpc.values) < 6) =>
        \A i \in Len(last_xpc.values)..5 :
            CtrlSlotOnWire(last_xpc.sent, i) = (IF i = 4 THEN -1 ELSE -998)

C27_Witness ==
    /\ XpcDone("sendCTRL") /\ last_xpc.raised = "none"
    /\ Len(last_xpc.values) = 2
    /\ CtrlSlotOnWire(last_xpc.sent, 3) = -998
    /\ CtrlSlotOnWire(last_xpc.sent, 4) = -1
    /\ CtrlSlotOnWire(last_xpc.sent, 5) = -998

\* the vectors sendCTRL accepts
CtrlAccepted == {v \in ValuesSamples : sendCTRL(v, 0).raised = "none"}

\* C28: getCTRL reading the buffer sendCTRL produced for an accepted vector
\* of 1 to 7 values returns that vector.
C28_CtrlRoundTrip ==
    (XpcDone("getCTRL") /\ Received) =>
        \A v \in CtrlAccepted :
            last_xpc.recv.buf = sendCTRL(v, 0).sent => last_xpc.ret = SeqOf(v)

\* the vectors of 7 values a layout holds exactly: its single slots hold
\* singles
HeldExactly(v, firstSingle) == \A i \in firstSingle..7 : Single(v[i]) = v[i]

\* C29 as stated: getPOSI reading the 46-byte buffer sendPOSI produced for 7
\* values, or the 34-byte single-precision layout of 7 values, returns the
\* same 7 values in the same order.
C29_Original ==
    (XpcDone("getPOSI") /\ Received) =>
        \A v \in VectorSamples :
            /\ last_xpc.recv.buf = sendPOSI(v, 0).sent => last_xpc.ret = SeqOf(v)
            /\ last_xpc.recv.buf = Posi34(v, 0) => last_xpc.ret = SeqOf(v)

\* C29: getPOSI reading the 46-byte buffer sendPOSI produced for 7 values
\* whose last four are singles, or the 34-byte single-precision layout of 7
\* singles, returns the same 7 values in the same order.
C29_PosiRoundTrip ==
    (XpcDone("getPOSI") /\ Received) =>
        \A v \in VectorSamples :
            /\ (HeldExactly(v, 4) /\ last_xpc.recv.buf = sendPOSI(v, 0).sent)
                  => last_xpc.ret = SeqOf(v)
            /\ (HeldExactly(v, 1) /\ last_xpc.recv.buf = Posi34(v, 0))
                  => last_xpc.ret = SeqOf(v)

C29_Witness ==
    /\ XpcDone("getPOSI") /\ Received
    /\ last_xpc.recv.buf = sendPOSI(<<single_exact + 1, -122, 99, 2, 1, 180, 3>>, 0).sent
    /\ last_xpc.ret = SeqOf(<<single_exact + 1, -122, 99, 2, 1, 180, 3>>)

\* the tag of the buffer a call sends
TagOf ==
    [sendPOSI |-> "POSI", sendCTRL |-> "CTRL", getPOSI |-> "GETP",
     getCTRL |-> "GETC", getDREFs |-> "GETD", setCONN |-> "CONN",
     pauseSim |-> "SIMU", sendDATA |-> "DATA", sendDREFs |-> "DREF",
     sendTEXT |-> "TEXT", sendVIEW |-> "VIEW", sendWYPT |-> "WYPT"]

\* C30: every buffer a call hands to the socket starts with the 4 bytes of
\* its command's tag and one zero byte.
C30_TagAndSeparator ==
    last_xpc.sent # <<>> =>
        /\ Len(last_xpc.sent) >= 5
        /\ SubSeq(last_xpc.sent, 1, 4)
              = <<Field("s", TagOf[last_xpc.op])>> \o Cont(3)
        /\ last_xpc.sent[5] = Field("B", 0)

C30_Witness ==
    /\ XpcDone("sendWYPT") /\ last_xpc.raised = "none"
    /\ Len(last_xpc.sent) = 19
    /\ TagAt(last_xpc.sent, 0) = "WYPT"

\* C35: sendWYPT accepts and encodes every add or remove request of up to
\* 255 points of 3 floats each, and whenever it rejects a request it raises
\* ValueError and has sent nothing.
C35_AcceptsUpTo255Points ==
    XpcDone("sendWYPT") =>
        /\ (/\ last_xpc.values[1] \in {1, 2}
            /\ (Len(last_xpc.values) - 1) % 3 = 0
            /\ (Len(last_xpc.values) - 1) \div 3 <= 255) =>
               /\ last_xpc.raised = "none"
               /\ TagAt(last_xpc.sent, 0) = "WYPT"
               /\ Len(last_xpc.sent) = 7 + 4 * (Len(last_xpc.values) - 1)
        /\ last_xpc.raised # "none" =>
               /\ last_xpc.raised = "ValueError"
               /\ last_xpc.sent = <<>>

-----------------------------------------------------------------------------
(* Claims about the collision detector *)

\* the lock is free: no method is inside its with block
LockFree == det.lock = "free"

\* C34: a collision is sticky: once a contact message with an entity that is
\* not filtered out has been delivered, is_colliding() and
\* has_collision_occurred() return True until reset_collision_state() is
\* called, whatever contact messages arrive in between.
C34_StickyCollision ==
    (det.ret.op \in {"is_colliding", "has_collision_occurred"} /\ det.ret.struck)
        => det.ret.val = <<TRUE>>

\* C37: after reset_collision_state(), is_colliding() returns False until a
\* contact message with an entity that is not filtered out is delivered,
\* whatever other methods are called in between.
C37_QuietAfterReset ==
    (det.ret.op = "is_colliding" /\ det.ret.quiet) => det.ret.val = <<FALSE>>

\* C38: whenever the lock is free, the collision flag is True exactly when
\* the collision entity is not None, and get_collision_status returns a
\* consistent pair: True with the entity, or False with "No collision".
C38_FlagMatchesEntity ==
    /\ LockFree =>
           (det.d.aircraft_colliding <=> det.d.collision_entity # "None")
    /\ det.ret.op = "get_collision_status" =>
           det.ret.val \in {<<TRUE, e>> : e \in Entities}
                           \cup {<<FALSE, "No collision">>}

\* a contact was recorded while another entity was filtered out, the filter
\* then changed, and get_collision_status has returned the collision
C38_Witness ==
    /\ LockFree
    /\ det.d.aircraft_colliding /\ det.d.collision_entity = "building"
    /\ det.d.current_collisions = Entities
    /\ det.d.ignored_entities # {}
    /\ det.ret.op = "get_collision_status" /\ det.ret.val = <<TRUE, "building">>
    /\ det.quiet

-----------------------------------------------------------------------------
(* Claims about the flight interface *)

\* C31: sendCTRL of the flight interface returns a true value only if the
\* control vector was sent, and a false value whenever the underlying send
\* fails or the backend is uninitialised.
C31_SendCTRLReportsFailure ==
    iface.last.op = "sendCTRL" =>
        /\ IsSuccess(iface.last.ret) => iface.last.sent # <<>>
        /\ (\/ ~iface.last.before.initialized
            \/ iface.last.outcome \in {"raises", "False"})
               => ~IsSuccess(iface.last.ret)

\* C32: constructing UnifiedFlightInterface or calling
\* create_flight_interface raises if the variant cannot initialise, raises
\* ValueError for an unsupported selector, and returns only an interface
\* whose variant is initialised.
C32_FailsFast ==
    iface.last.op \in {"UnifiedFlightInterface", "create_flight_interface"} =>
        /\ (EngineOf(iface.last.sel) # "none" /\ iface.last.outcome # "ok")
               => iface.last.raised # "none"
        /\ (\/ iface.last.op = "UnifiedFlightInterface"
               /\ iface.last.sel \notin {JSBSIM, XPLANE}
            \/ iface.last.op = "create_flight_interface"
               /\ EngineOf(iface.last.sel) = "none")
               => iface.last.raised = "ValueError"
        /\ iface.last.raised = "none" =>
               /\ iface.obj.cls = "UnifiedFlightInterface"
               /\ iface.obj.initialized

\* C33: close raises at no layer, even when the close of the socket fails;
\* a close of an object that is closed already changes nothing; after
\* XPlaneConnect.close the socket reference is None.
C33_CloseNeverRaises ==
    iface.last.op \in CloseLayers =>
        /\ iface.last.raised = "none"
        /\ iface.last.op = "XPlaneConnect.close" => iface.obj.socket = "None"
        /\ iface.last.before.socket = "None" => iface.obj = iface.last.before

\* the close of an open socket failed inside XPlaneConnect.close
C33_Witness ==
    /\ iface.last.op = "XPlaneConnect.close"
    /\ iface.last.outcome = "close_raises"
    /\ iface.last.before.socket = "open"
    /\ iface.last.before.cls = "UnifiedFlightInterface"
    /\ iface.obj.socket = "None"

-----------------------------------------------------------------------------
(* Claims about the counters of step *)

\* C39 as stated: every call of step increments episode_steps by exactly one
\* and episodes_completed by at most one.
C39_Original ==
    [][StepTaken =>
          /\ episode_steps' = episode_steps + 1
          /\ episodes_completed' \in {episodes_completed, episodes_completed + 1}
      ]_vars

\* C39: a call of step in which isCrash reports no crash increments
\* episode_steps by exactly one, however many attempts it makes and also when
\* all of them fail; a call in which isCrash reports a crash calls reset and
\* leaves episode_steps at 0; every call increments episodes_completed by at
\* most one.
C39_StepCounters ==
    [][StepTaken =>
          /\ episode_steps' =
                (IF last'.t.resetCalled THEN 0 ELSE episode_steps + 1)
          /\ episodes_completed' \in {episodes_completed, episodes_completed + 1}
      ]_vars

\* C39 witness: a second step of an episode failed in all three attempts and
\* consumed one step of the budget
C39_Witness ==
    /\ StepDone /\ last.t.exhausted
    /\ last.t.nAttempts = max_retries
    /\ episode_steps = 2

-----------------------------------------------------------------------------
(* Claims about the coordinator and the detector's callback thread *)

\* C36: a reset that returns leaves no contact behind, whenever the callback
\* thread recorded it: after it the detector's flag and the coordinator's
\* collision flag are both False, and a step that starts so and during which
\* no contact message is delivered does not see a collision and does not end
\* the episode for one.
C36_ResetClearsLateContact ==
    [][/\ (last'.op = "reset" /\ ~last'.raised /\ ProgVars' # ProgVars) =>
              /\ ~aircraft_colliding'
              /\ ~isCollision'
       /\ (StepTaken /\ ~aircraft_colliding /\ ~isCollision) =>
              /\ ~last'.t.collisionPolled
              /\ ~isCollision'
      ]_vars

=============================================================================
